---- MODULE Spec2Model ----
(***************************************************************************)
(* VantageCV: the anchor-based spawn system (UAnchorSpawnSystem with its   *)
(* FDeterministicRandom) and the vehicle registry / authoritative sweep of *)
(* ADomainRandomization.                                                   *)
(*                                                                         *)
(* Units: positions are whole centimetres, yaws whole degrees, the lane    *)
(* parameter T is in thousandths, probabilities are in percent.  A float   *)
(* drawn from the stream is kept to its 23 fraction bits and a ranged      *)
(* float is floored to the unit.                                           *)
(***************************************************************************)
EXTENDS Integers, Sequences, FiniteSets, TLC

VARIABLES
    sys,      \* one UAnchorSpawnSystem object together with the world it spawns in
    shadow,   \* a second, independent run of the same object (determinism check)
    dr,       \* one ADomainRandomization actor together with its world
    calc      \* one evaluation of a function of the code: its name, inputs and result

vars == <<sys, shadow, dr, calc>>

(***************************************************************************)
(* Bounds of the model                                                     *)
(***************************************************************************)
MaxOps == 4          \* calls made on one spawn system
MaxDrOps == 6        \* calls made on one domain randomization actor
MaxPool == 6         \* size of a shuffled index array
MaxCalcSeed == 42    \* seeds 0..MaxCalcSeed the evaluated functions draw from

Seeds == {42, 7}

(***************************************************************************)
(* FRandomStream (engine): Seed = Seed * 196314165 + 907633515 (mod 2^32), *)
(* kept as four little-endian bytes; the fraction is Seed >> 9.            *)
(***************************************************************************)
SeedBytes(n) ==
    <<n % 256, (n \div 256) % 256, (n \div 65536) % 256, (n \div 16777216) % 256>>

MutateSeed(b) ==
    LET t0 == b[1] * 53 + 107
        t1 == b[1] * 132 + b[2] * 53 + 99 + (t0 \div 256)
        t2 == b[1] * 179 + b[2] * 132 + b[3] * 53 + 25 + (t1 \div 256)
        t3 == b[1] * 11 + b[2] * 179 + b[3] * 132 + b[4] * 53 + 54 + (t2 \div 256)
    IN  <<t0 % 256, t1 % 256, t2 % 256, t3 % 256>>

\* numerator of the fraction in [0,1): the 23 bits Seed >> 9
FractionBits(b) == b[4] * 32768 + b[3] * 128 + (b[2] \div 2)
FractionDen == 8388608

Min2(a, b) == IF a < b THEN a ELSE b
Max2(a, b) == IF a > b THEN a ELSE b

(***************************************************************************)
(* FDeterministicRandom.  Every draw takes the spawn system record s and   *)
(* returns [v |-> the value, s |-> the record after the draw].             *)
(***************************************************************************)
RandomInitialize(R, Seed) ==
    [CurrentSeed |-> Seed, Stream |-> SeedBytes(Seed), CallCount |-> 0, Mutations |-> 0]

\* the stream advanced by one GetFraction()
StreamNext(s) ==
    [s EXCEPT !.Random.Stream = MutateSeed(@), !.Random.Mutations = @ + 1]

\* FRand: numerator over FractionDen
FRand(s) ==
    LET s1 == [s EXCEPT !.Random.CallCount = @ + 1]
        s2 == StreamNext(s1)
    IN  [v |-> FractionBits(s2.Random.Stream), s |-> s2]

\* FRandRange drawing from the process-wide generator instead of the seeded stream
FRandRange_Unseeded(s, Min, Max) ==
    [v |-> Min + (((Max - Min) * s.Ambient) \div 4),
     s |-> [s EXCEPT !.Random.CallCount = @ + 1]]

\* FRandRange(Min, Max) = Min + (Max - Min) * fraction, floored to the unit
FRandRange(s, Min, Max) ==
    LET s1 == [s EXCEPT !.Random.CallCount = @ + 1]
        s2 == StreamNext(s1)
        k15 == FractionBits(s2.Random.Stream) \div 256
    IN  [v |-> Min + (((Max - Min) * k15) \div 32768), s |-> s2]

\* RandRange(Min, Max) = Min + RandHelper(Max - Min + 1)
RandRange(s, Min, Max) ==
    LET s1 == [s EXCEPT !.Random.CallCount = @ + 1]
        s2 == StreamNext(s1)
        Range == (Max - Min) + 1
    IN  IF Range > 0
        THEN [v |-> Min + Min2((FractionBits(s2.Random.Stream) * Range) \div FractionDen,
                               Range - 1),
              s |-> s2]
        ELSE [v |-> Min, s |-> s1]

\* RandBool reading the stream directly, without the counted FRand
RandBool_Uncounted(s, TrueProbability) ==
    LET s2 == StreamNext(s)
    IN  [v |-> (FractionBits(s2.Random.Stream) \div 256) * 100 < TrueProbability * 32768,
         s |-> s2]

\* RandBool answering true when the draw is not below the probability
RandBool_Inverted(s, TrueProbability) ==
    LET d == FRand(s)
    IN  [v |-> ~((d.v \div 256) * 100 < TrueProbability * 32768), s |-> d.s]

\* RandBool(p) = FRand() < p, p in percent
RandBool(s, TrueProbability) ==
    LET d == FRand(s)
    IN  [v |-> (d.v \div 256) * 100 < TrueProbability * 32768, s |-> d.s]

(***************************************************************************)
(* The level: named anchor actors at fixed transforms.  Lanes are          *)
(* axis-aligned, so directions and lengths stay integral.                  *)
(***************************************************************************)
\* a transform: location in cm and the yaw, in degrees, of the FRotator it is built from
Xf(x, y, z, yaw) == [x |-> x, y |-> y, z |-> z, yaw |-> yaw]
Identity == Xf(0, 0, 0, 0)

AnchorNames == {"P1", "P2", "P3", "S1", "E1", "S2", "E2", "W1", "W2"}
\* a background actor of the level that is no anchor
Background == {"Building_01"}

ActorTransform(n) ==
    CASE n = "P1" -> Xf(0, 0, 0, 0)
      [] n = "P2" -> Xf(300, 0, 0, 90)
      [] n = "P3" -> Xf(1000, 0, 0, -178)
      [] n = "S1" -> Xf(0, 1000, 0, 0)
      [] n = "E1" -> Xf(2000, 1000, 0, 0)
      [] n = "S2" -> Xf(1000, 2000, 0, 0)
      [] n = "E2" -> Xf(1000, 4000, 0, 0)
      [] n = "W1" -> Xf(400, -600, 50, 0)
      [] n = "W2" -> Xf(0, -1000, 0, 0)
      \* a parking row of five slots 600 apart, and one of five slots 300 apart
      [] n = "A1" -> Xf(0, 6000, 0, 0)
      [] n = "A2" -> Xf(600, 6000, 0, 90)
      [] n = "A3" -> Xf(1200, 6000, 0, 178)
      [] n = "A4" -> Xf(1800, 6000, 0, -178)
      [] n = "A5" -> Xf(2400, 6000, 0, -90)
      [] n = "B1" -> Xf(0, 8000, 0, 0)
      [] n = "B2" -> Xf(300, 8000, 0, 90)
      [] n = "B3" -> Xf(600, 8000, 0, 178)
      [] n = "B4" -> Xf(900, 8000, 0, -178)
      [] n = "B5" -> Xf(1200, 8000, 0, -90)
      [] OTHER -> Identity

\* anchor actors the level designer may delete or restore between calls
Removable == {"P2", "E1", "W2"}

GroundPlaneZ == 0

(***************************************************************************)
(* Configuration records (FAnchorSpawnConfig and its parts, with the       *)
(* defaults of the header).                                                *)
(***************************************************************************)
Vec(x, y, z) == [x |-> x, y |-> y, z |-> z]

FLaneDefinition(id, start, end) ==
    [LaneId |-> id, StartAnchorName |-> start, EndAnchorName |-> end,
     StartTransform |-> Identity, EndTransform |-> Identity,
     Direction |-> Vec(0, 0, 0), Length |-> 0, bIsValid |-> FALSE]

FSidewalkBounds(a1, a2) ==
    [Anchor1Name |-> a1, Anchor2Name |-> a2,
     Bounds |-> [Min |-> Vec(0, 0, 0), Max |-> Vec(0, 0, 0)], bIsValid |-> FALSE]

FAnchorSpawnConfig(parking, lanes, sidewalk) ==
    [ParkingAnchors |-> parking,
     ParkingPositionJitter |-> 10,
     ParkingYawJitter |-> 5,
     ReverseParkingProbability |-> 30,
     Lanes |-> lanes,
     LaneLateralJitter |-> 30,
     LaneYawJitter |-> 2,
     SidewalkBounds |-> sidewalk,
     LockedActors |-> <<>>]

DefaultConfig == FAnchorSpawnConfig(<<>>, <<>>, FSidewalkBounds("", ""))

\* the configurations a caller passes to Initialize
CallerConfigs ==
    { [FAnchorSpawnConfig(<<"P1", "P2", "P3">>,
                         <<FLaneDefinition("L1", "S1", "E1"), FLaneDefinition("L2", "S2", "E2")>>,
                         FSidewalkBounds("W1", "W2"))
          EXCEPT !.LockedActors = <<"Building_01", "P1">>],
      FAnchorSpawnConfig(<<"P1", "PX", "P3">>,
                         <<FLaneDefinition("LX", "S1", "EX"), FLaneDefinition("L1", "S1", "E1")>>,
                         FSidewalkBounds("W1", "W2")) }

(***************************************************************************)
(* Anchor resolution                                                       *)
(***************************************************************************)
\* FindActorByName: the actor's name, or "" for nullptr
FindActorByName(s, ActorName) ==
    IF ~s.World \/ ActorName = "" THEN ""
    ELSE IF ActorName \in s.Present THEN ActorName ELSE ""

MapAdd(m, k, v) == [n \in (DOMAIN m) \cup {k} |-> IF n = k THEN v ELSE m[n]]

FAnchorDefinition(name, type, group, xf) ==
    [ActorName |-> name, Type |-> type, GroupId |-> group,
     CachedTransform |-> xf, bIsValid |-> TRUE]

Sgn(a) == IF a > 0 THEN 1 ELSE IF a < 0 THEN -1 ELSE 0
Abs(a) == IF a < 0 THEN -a ELSE a

\* (End - Start).GetSafeNormal() and FVector::Dist for an axis-aligned segment
SafeNormal(a, b) == Vec(Sgn(b.x - a.x), Sgn(b.y - a.y), Sgn(b.z - a.z))
Dist(a, b) == Abs(b.x - a.x) + Abs(b.y - a.y) + Abs(b.z - a.z)

RECURSIVE ResolveParking_StopAtMissing(_, _, _)
\* the parking loop leaving at the first anchor that is not found
ResolveParking_StopAtMissing(s, i, c) ==
    IF i > Len(s.Config.ParkingAnchors) THEN [v |-> c, s |-> s]
    ELSE LET AnchorName == s.Config.ParkingAnchors[i]
             Actor == FindActorByName(s, AnchorName)
         IN  IF Actor # ""
             THEN ResolveParking_StopAtMissing(
                      [s EXCEPT !.ResolvedAnchors =
                          MapAdd(@, AnchorName,
                                 FAnchorDefinition(AnchorName, "Parking", "", ActorTransform(Actor)))],
                      i + 1, c + 1)
             ELSE [v |-> c, s |-> s]

RECURSIVE ResolveParking(_, _, _)
\* the loop over Config.ParkingAnchors from index i; c is ResolvedCount
ResolveParking(s, i, c) ==
    IF i > Len(s.Config.ParkingAnchors) THEN [v |-> c, s |-> s]
    ELSE LET AnchorName == s.Config.ParkingAnchors[i]
             Actor == FindActorByName(s, AnchorName)
         IN  IF Actor # ""
             THEN ResolveParking(
                      [s EXCEPT !.ResolvedAnchors =
                          MapAdd(@, AnchorName,
                                 FAnchorDefinition(AnchorName, "Parking", "", ActorTransform(Actor)))],
                      i + 1, c + 1)
             ELSE ResolveParking(s, i + 1, c)

RECURSIVE ResolveLanes(_, _, _)
\* the loop over Config.Lanes from index i
ResolveLanes(s, i, c) ==
    IF i > Len(s.Config.Lanes) THEN [v |-> c, s |-> s]
    ELSE LET Lane == s.Config.Lanes[i]
             StartActor == FindActorByName(s, Lane.StartAnchorName)
             EndActor == FindActorByName(s, Lane.EndAnchorName)
         IN  IF StartActor # "" /\ EndActor # ""
             THEN LET st == ActorTransform(StartActor)
                      en == ActorTransform(EndActor)
                      L2 == [Lane EXCEPT !.StartTransform = st, !.EndTransform = en,
                                         !.Direction = SafeNormal(st, en),
                                         !.Length = Dist(st, en),
                                         !.bIsValid = TRUE]
                      m1 == MapAdd(s.ResolvedAnchors, Lane.StartAnchorName,
                                   FAnchorDefinition(Lane.StartAnchorName, "RoadLaneStart",
                                                     Lane.LaneId, st))
                      m2 == MapAdd(m1, Lane.EndAnchorName,
                                   FAnchorDefinition(Lane.EndAnchorName, "RoadLaneEnd",
                                                     Lane.LaneId, en))
                  IN  ResolveLanes([s EXCEPT !.Config.Lanes[i] = L2, !.ResolvedAnchors = m2],
                                   i + 1, c + 2)
             ELSE ResolveLanes([s EXCEPT !.Config.Lanes[i].bIsValid = FALSE], i + 1, c)

\* the sidewalk part counting each corner that was found on its own
ResolveSidewalk_CountEach(s, c) ==
    LET SW1 == FindActorByName(s, s.Config.SidewalkBounds.Anchor1Name)
        SW2 == FindActorByName(s, s.Config.SidewalkBounds.Anchor2Name)
        n == (IF SW1 # "" THEN 1 ELSE 0) + (IF SW2 # "" THEN 1 ELSE 0)
    IN  IF SW1 # "" /\ SW2 # ""
        THEN LET P1 == ActorTransform(SW1)
                 P2 == ActorTransform(SW2)
                 box == [Min |-> Vec(Min2(P1.x, P2.x), Min2(P1.y, P2.y), Min2(P1.z, P2.z)),
                         Max |-> Vec(Max2(P1.x, P2.x), Max2(P1.y, P2.y), Max2(P1.z, P2.z))]
             IN  [v |-> c + n,
                  s |-> [s EXCEPT !.Config.SidewalkBounds.Bounds = box,
                                  !.Config.SidewalkBounds.bIsValid = TRUE]]
        ELSE [v |-> c + n, s |-> s]

\* the sidewalk part of ResolveAnchors
ResolveSidewalk(s, c) ==
    LET SW1 == FindActorByName(s, s.Config.SidewalkBounds.Anchor1Name)
        SW2 == FindActorByName(s, s.Config.SidewalkBounds.Anchor2Name)
    IN  IF SW1 # "" /\ SW2 # ""
        THEN LET P1 == ActorTransform(SW1)
                 P2 == ActorTransform(SW2)
                 box == [Min |-> Vec(Min2(P1.x, P2.x), Min2(P1.y, P2.y), Min2(P1.z, P2.z)),
                         Max |-> Vec(Max2(P1.x, P2.x), Max2(P1.y, P2.y), Max2(P1.z, P2.z))]
             IN  [v |-> c + 2,
                  s |-> [s EXCEPT !.Config.SidewalkBounds.Bounds = box,
                                  !.Config.SidewalkBounds.bIsValid = TRUE]]
        ELSE [v |-> c, s |-> s]

ResolveAnchors(s) ==
    LET s0 == [s EXCEPT !.ResolvedAnchors = <<>>]
        p == ResolveParking(s0, 1, 0)
        l == ResolveLanes(p.s, 1, p.v)
    IN  ResolveSidewalk(l.s, l.v)

(***************************************************************************)
(* Spawn results, instance ids and the actors the system spawns.           *)
(* A request's Phases is the path it took through the placement state      *)
(* machine; Checks counts its CheckOverlap calls and Candidate is the      *)
(* transform handed to the last of them.                                   *)
(***************************************************************************)
FSpawnResult ==
    [bSuccess |-> FALSE, InstanceId |-> <<>>, SpawnedActor |-> 0, AnchorName |-> "",
     FinalTransform |-> Identity, FailureReason |-> "",
     Phases |-> <<"Idle">>, Checks |-> 0, By |-> "", T |-> -1, Candidate |-> Identity]

Phase(r, p) == [r EXCEPT !.Phases = Append(@, p)]

VehicleHalfExtentX == 250

\* asset paths: a blueprint class, a static mesh, and a path that loads nothing
AssetKind(path) ==
    CASE path = "BP_Car" -> "class"
      [] path = "SM_Car" -> "mesh"
      [] path = "SM_Cone" -> "mesh"
      [] OTHER -> "none"

FVehicleSpawnConfig(path, scale) == [AssetPath |-> path, Scale |-> scale]

\* GenerateInstanceId: Printf("%s_%04d", Prefix, InstanceCounter++)
GenerateInstanceId(s, Prefix) ==
    [v |-> <<Prefix, s.InstanceCounter>>, s |-> [s EXCEPT !.InstanceCounter = @ + 1]]

\* IsValid(Actor) for a handle of the world's actor table
IsValidActor(s, h) == h # 0 /\ s.Actors[h].bValid

\* SpawnActorFromAsset: the handle of the new actor, 0 for nullptr.  SpawnActor
\* with a Name that a live actor of the level already has is fatal.
SpawnActorFromAsset(s, AssetPath, Transform, InstanceId) ==
    IF ~s.World THEN [v |-> 0, s |-> s]
    ELSE IF AssetKind(AssetPath) = "none" THEN [v |-> 0, s |-> s]
    ELSE IF \E h \in 1..Len(s.Actors) : s.Actors[h].bValid /\ s.Actors[h].Name = InstanceId
         THEN [v |-> 0, s |-> [s EXCEPT !.Crashed = TRUE]]
    ELSE LET a == [Name |-> InstanceId,
                   Loc |-> Vec(Transform.x, Transform.y, Transform.z),
                   Yaw |-> Transform.yaw, Scale |-> 1, bValid |-> TRUE,
                   Asset |-> AssetPath]
         IN  [v |-> Len(s.Actors) + 1, s |-> [s EXCEPT !.Actors = Append(@, a)]]

Dist2DSq(a, b) == (a.x - b.x) * (a.x - b.x) + (a.y - b.y) * (a.y - b.y)

\* CheckOverlap comparing against the half-extent instead of twice the half-extent
CheckOverlap_HalfDistance(s, Transform, ExtentX) ==
    \E i \in 1..Len(s.SpawnedActors) :
        LET h == s.SpawnedActors[i]
            MinDistance == ExtentX
        IN  /\ IsValidActor(s, h)
            /\ Dist2DSq(Transform, s.Actors[h].Loc) < MinDistance * MinDistance

\* CheckOverlap without the skip of destroyed actors
CheckOverlap_CountsDestroyed(s, Transform, ExtentX) ==
    \E i \in 1..Len(s.SpawnedActors) :
        LET h == s.SpawnedActors[i]
            MinDistance == ExtentX * 2
        IN  /\ h # 0
            /\ Dist2DSq(Transform, s.Actors[h].Loc) < MinDistance * MinDistance

\* CheckOverlap: TRUE when some valid spawned actor is nearer than VehicleExtent.X * 2
CheckOverlap(s, Transform, ExtentX) ==
    \E i \in 1..Len(s.SpawnedActors) :
        LET h == s.SpawnedActors[i]
            MinDistance == ExtentX * 2
        IN  /\ IsValidActor(s, h)
            /\ Dist2DSq(Transform, s.Actors[h].Loc) < MinDistance * MinDistance

\* FMath::Fmod: the remainder has the sign of the dividend
Fmod(a, b) == IF a >= 0 THEN a % b ELSE -((-a) % b)

\* ComputeParkingTransform adding both jitters to the X axis as well
ComputeParkingTransform_SumJitter(s, Anchor, Mode) ==
    LET Location == Anchor.CachedTransform
        jx == FRandRange(s, -s.Config.ParkingPositionJitter, s.Config.ParkingPositionJitter)
        jy == FRandRange(jx.s, -s.Config.ParkingPositionJitter, s.Config.ParkingPositionJitter)
        Yaw1 == IF Mode = "ReverseIn" THEN Location.yaw + 180 ELSE Location.yaw
        yj == FRandRange(jy.s, -s.Config.ParkingYawJitter, s.Config.ParkingYawJitter)
        Yaw3 == Fmod(Yaw1 + yj.v + 180, 360) - 180
    IN  [v |-> Xf(Location.x + jx.v + jy.v, Location.y + jy.v, Location.z, Yaw3), s |-> yj.s]

ComputeParkingTransform(s, Anchor, Mode) ==
    LET Location == Anchor.CachedTransform
        jx == FRandRange(s, -s.Config.ParkingPositionJitter, s.Config.ParkingPositionJitter)
        jy == FRandRange(jx.s, -s.Config.ParkingPositionJitter, s.Config.ParkingPositionJitter)
        Yaw1 == IF Mode = "ReverseIn" THEN Location.yaw + 180 ELSE Location.yaw
        yj == FRandRange(jy.s, -s.Config.ParkingYawJitter, s.Config.ParkingYawJitter)
        Yaw2 == Yaw1 + yj.v
        Yaw3 == Fmod(Yaw2 + 180, 360) - 180
    IN  [v |-> Xf(Location.x + jx.v, Location.y + jy.v, Location.z, Yaw3), s |-> yj.s]

\* the tail shared by the slot and lane requests: id, spawn, registry
SpawnAndRegister(s, r, AssetPath, Scale, SpawnTransform, Prefix) ==
    LET id == GenerateInstanceId(s, Prefix)
        sp == SpawnActorFromAsset(id.s, AssetPath, SpawnTransform, id.v)
        r1 == [r EXCEPT !.InstanceId = id.v, !.SpawnedActor = sp.v]
    IN  IF sp.v # 0
        THEN [v |-> Phase([r1 EXCEPT !.FinalTransform = SpawnTransform, !.bSuccess = TRUE],
                          "Spawned"),
              s |-> [sp.s EXCEPT !.Actors[sp.v].Scale = Scale,
                                 !.SpawnedActors = Append(@, sp.v)]]
        ELSE [v |-> Phase([r1 EXCEPT !.FailureReason = "Actor spawn failed"], "Failed"),
              s |-> sp.s]

\* the collision gate checking a rejected candidate a second time before failing
OverlapGate_Recheck(s, r, VConfig, SpawnTransform, Prefix) ==
    LET r2 == Phase([r EXCEPT !.Checks = @ + 1, !.Candidate = SpawnTransform],
                   "CollisionChecked")
        r3 == Phase([r2 EXCEPT !.Checks = @ + 1], "CollisionChecked")
    IN  IF CheckOverlap(s, SpawnTransform, VehicleHalfExtentX)
        THEN IF CheckOverlap(s, SpawnTransform, VehicleHalfExtentX)
             THEN [v |-> Phase([r3 EXCEPT !.FailureReason = "Overlap with existing vehicle"],
                               "Failed"),
                   s |-> s]
             ELSE SpawnAndRegister(s, r3, VConfig.AssetPath, VConfig.Scale, SpawnTransform,
                                   Prefix)
        ELSE SpawnAndRegister(s, r2, VConfig.AssetPath, VConfig.Scale, SpawnTransform, Prefix)

\* the collision gate without the return after the overlap failure
OverlapGate_FallThrough(s, r, VConfig, SpawnTransform, Prefix) ==
    LET r2 == Phase([r EXCEPT !.Checks = @ + 1, !.Candidate = SpawnTransform],
                   "CollisionChecked")
    IN  IF CheckOverlap(s, SpawnTransform, VehicleHalfExtentX)
        THEN SpawnAndRegister(s,
                 Phase([r2 EXCEPT !.FailureReason = "Overlap with existing vehicle"], "Failed"),
                 VConfig.AssetPath, VConfig.Scale, SpawnTransform, Prefix)
        ELSE SpawnAndRegister(s, r2, VConfig.AssetPath, VConfig.Scale, SpawnTransform, Prefix)

\* the collision gate shared by the slot and lane requests: one CheckOverlap,
\* then either the overlap failure or the spawn
OverlapGate(s, r, VConfig, SpawnTransform, Prefix) ==
    LET r2 == Phase([r EXCEPT !.Checks = @ + 1, !.Candidate = SpawnTransform],
                   "CollisionChecked")
    IN  IF CheckOverlap(s, SpawnTransform, VehicleHalfExtentX)
        THEN [v |-> Phase([r2 EXCEPT !.FailureReason = "Overlap with existing vehicle"],
                          "Failed"),
              s |-> s]
        ELSE SpawnAndRegister(s, r2, VConfig.AssetPath, VConfig.Scale, SpawnTransform, Prefix)

SpawnAtParkingSlot(s, AnchorName, VConfig, Mode) ==
    LET r0 == [FSpawnResult EXCEPT !.AnchorName = AnchorName, !.By = "slot"]
    IN  IF AnchorName \notin DOMAIN s.ResolvedAnchors
           \/ ~s.ResolvedAnchors[AnchorName].bIsValid
        THEN [v |-> Phase([r0 EXCEPT !.FailureReason = "Anchor not found or invalid"], "Failed"),
              s |-> s]
        ELSE LET tr == ComputeParkingTransform(s, s.ResolvedAnchors[AnchorName], Mode)
                 r1 == Phase(Phase(r0, "AnchorOrLaneResolved"), "CandidateComputed")
             IN  OverlapGate(tr.s, r1, VConfig, tr.v, "parking")

\* Swap writing position i only
Swap_CopyOnly(q, i, j) == [q EXCEPT ![i] = q[j]]

Swap(q, i, j) == [q EXCEPT ![i] = q[j], ![j] = q[i]]

RECURSIVE Shuffle(_, _, _)
\* the Fisher-Yates loop: i runs from Num - 1 down to 1 (0-based)
Shuffle(s, q, i) ==
    IF i <= 0 THEN [v |-> q, s |-> s]
    ELSE LET j == RandRange(s, 0, i)
         IN  Shuffle(j.s, Swap(q, i + 1, j.v + 1), i - 1)

RECURSIVE ParkingLoop(_, _, _, _, _, _)
\* the spawn loop of SpawnParkingVehicles from index i (0-based)
ParkingLoop(s, SlotIndices, VehicleConfigs, VehiclesToSpawn, i, Results) ==
    IF ~(i < VehiclesToSpawn /\ i < Len(SlotIndices)) \/ s.Crashed
    THEN [v |-> Results, s |-> s]
    ELSE LET AnchorName == s.Config.ParkingAnchors[SlotIndices[i + 1] + 1]
             VConfig == VehicleConfigs[(i % Len(VehicleConfigs)) + 1]
             b == RandBool(s, s.Config.ReverseParkingProbability)
             Mode == IF b.v THEN "ReverseIn" ELSE "PullIn"
             r == SpawnAtParkingSlot(b.s, AnchorName, VConfig, Mode)
         IN  ParkingLoop(r.s, SlotIndices, VehicleConfigs, VehiclesToSpawn, i + 1,
                         Append(Results, r.v))

\* SpawnParkingVehicles filling every slot whatever MaxVehicles is
SpawnParkingVehicles_FillAll(s, VehicleConfigs, MaxVehicles) ==
    IF Len(VehicleConfigs) = 0 THEN [v |-> <<>>, s |-> s]
    ELSE LET SlotCount == Len(s.Config.ParkingAnchors)
             sh == Shuffle(s, [k \in 1..SlotCount |-> k - 1], SlotCount - 1)
         IN  ParkingLoop(sh.s, sh.v, VehicleConfigs, SlotCount, 0, <<>>)

SpawnParkingVehicles(s, VehicleConfigs, MaxVehicles) ==
    IF Len(VehicleConfigs) = 0 THEN [v |-> <<>>, s |-> s]
    ELSE LET SlotCount == Len(s.Config.ParkingAnchors)
             VehiclesToSpawn == IF MaxVehicles < 0 THEN SlotCount
                                ELSE Min2(MaxVehicles, SlotCount)
             sh == Shuffle(s, [k \in 1..SlotCount |-> k - 1], SlotCount - 1)
         IN  ParkingLoop(sh.s, sh.v, VehicleConfigs, VehiclesToSpawn, 0, <<>>)

(***************************************************************************)
(* Lane spawning                                                           *)
(***************************************************************************)
\* FVector::Rotation().Yaw of an axis-aligned direction
DirectionYaw(d) ==
    IF d.x > 0 THEN 0 ELSE IF d.x < 0 THEN 180
    ELSE IF d.y > 0 THEN 90 ELSE IF d.y < 0 THEN -90 ELSE 0

ComputeLaneTransform(s, Lane, T) ==
    LET StartLoc == Lane.StartTransform
        EndLoc == Lane.EndTransform
        \* FMath::Lerp(StartLoc, EndLoc, T)
        Lx == StartLoc.x + ((EndLoc.x - StartLoc.x) * T) \div 1000
        Ly == StartLoc.y + ((EndLoc.y - StartLoc.y) * T) \div 1000
        Lz == StartLoc.z + ((EndLoc.z - StartLoc.z) * T) \div 1000
        \* CrossProduct(Direction, UpVector).GetSafeNormal()
        Right == Vec(Sgn(Lane.Direction.y), Sgn(-Lane.Direction.x), 0)
        lat == FRandRange(s, -s.Config.LaneLateralJitter, s.Config.LaneLateralJitter)
        yj == FRandRange(lat.s, -s.Config.LaneYawJitter, s.Config.LaneYawJitter)
    IN  [v |-> Xf(Lx + Right.x * lat.v, Ly + Right.y * lat.v, Lz,
                  DirectionYaw(Lane.Direction) + yj.v),
         s |-> yj.s]

\* index of the first lane of Config.Lanes with this id, 0 when there is none
FindLane(s, LaneId) ==
    IF \E i \in 1..Len(s.Config.Lanes) : s.Config.Lanes[i].LaneId = LaneId
    THEN CHOOSE i \in 1..Len(s.Config.Lanes) :
             /\ s.Config.Lanes[i].LaneId = LaneId
             /\ \A k \in 1..(i - 1) : s.Config.Lanes[k].LaneId # LaneId
    ELSE 0

SpawnAlongLane(s, LaneId, T, VConfig) ==
    LET r0 == [FSpawnResult EXCEPT !.AnchorName = LaneId, !.By = "lane"]
        li == FindLane(s, LaneId)
    IN  IF li = 0 \/ ~s.Config.Lanes[li].bIsValid
        THEN [v |-> Phase([r0 EXCEPT !.FailureReason = "Lane not found or invalid"], "Failed"),
              s |-> s]
        ELSE LET tr == ComputeLaneTransform(s, s.Config.Lanes[li], T)
                 r1 == Phase(Phase([r0 EXCEPT !.T = T], "AnchorOrLaneResolved"),
                             "CandidateComputed")
             IN  OverlapGate(tr.s, r1, VConfig, tr.v, "lane")

Clamp(x, lo, hi) == IF x < lo THEN lo ELSE IF x > hi THEN hi ELSE x

RECURSIVE LaneLoop_StopAtInvalid(_, _, _, _, _, _, _)
\* the loops of SpawnLaneVehicles leaving at the first invalid lane
LaneLoop_StopAtInvalid(s, VehicleConfigs, VehiclesPerLane, li, i, VehicleIndex, Results) ==
    IF li > Len(s.Config.Lanes) \/ s.Crashed THEN [v |-> Results, s |-> s]
    ELSE IF ~s.Config.Lanes[li].bIsValid THEN [v |-> Results, s |-> s]
    ELSE IF i >= VehiclesPerLane
    THEN LaneLoop_StopAtInvalid(s, VehicleConfigs, VehiclesPerLane, li + 1, 0, VehicleIndex,
                                Results)
    ELSE LET T0 == (1000 * (i + 1)) \div (VehiclesPerLane + 1)
             d == FRandRange(s, -100, 100)
             T == Clamp(T0 + d.v, 50, 950)
             VConfig == VehicleConfigs[(VehicleIndex % Len(VehicleConfigs)) + 1]
             r == SpawnAlongLane(d.s, s.Config.Lanes[li].LaneId, T, VConfig)
         IN  LaneLoop_StopAtInvalid(r.s, VehicleConfigs, VehiclesPerLane, li, i + 1,
                                    VehicleIndex + 1, Append(Results, r.v))

RECURSIVE LaneLoop(_, _, _, _, _, _, _)
\* the loops of SpawnLaneVehicles: lane index li (1-based), vehicle i (0-based)
LaneLoop(s, VehicleConfigs, VehiclesPerLane, li, i, VehicleIndex, Results) ==
    IF li > Len(s.Config.Lanes) \/ s.Crashed THEN [v |-> Results, s |-> s]
    ELSE IF ~s.Config.Lanes[li].bIsValid \/ i >= VehiclesPerLane
    THEN LaneLoop(s, VehicleConfigs, VehiclesPerLane, li + 1, 0, VehicleIndex, Results)
    ELSE LET T0 == (1000 * (i + 1)) \div (VehiclesPerLane + 1)
             d == FRandRange(s, -100, 100)
             T == Clamp(T0 + d.v, 50, 950)
             VConfig == VehicleConfigs[(VehicleIndex % Len(VehicleConfigs)) + 1]
             r == SpawnAlongLane(d.s, s.Config.Lanes[li].LaneId, T, VConfig)
         IN  LaneLoop(r.s, VehicleConfigs, VehiclesPerLane, li, i + 1, VehicleIndex + 1,
                      Append(Results, r.v))

SpawnLaneVehicles(s, VehicleConfigs, VehiclesPerLane) ==
    IF Len(VehicleConfigs) = 0 THEN [v |-> <<>>, s |-> s]
    ELSE LaneLoop(s, VehicleConfigs, VehiclesPerLane, 1, 0, 0, <<>>)

(***************************************************************************)
(* Sidewalk props                                                          *)
(***************************************************************************)
ComputeSidewalkPosition(s) ==
    LET B == s.Config.SidewalkBounds.Bounds
        X == FRandRange(s, B.Min.x, B.Max.x)
        Y == FRandRange(X.s, B.Min.y, B.Max.y)
    IN  [v |-> Vec(X.v, Y.v, (B.Min.z + B.Max.z) \div 2), s |-> Y.s]

\* the line trace from 500 above to 1000 below against the ground plane
GetGroundZ(s, Location) ==
    IF ~s.World THEN Location.z
    ELSE IF Location.z - 1000 <= GroundPlaneZ /\ GroundPlaneZ <= Location.z + 500
         THEN GroundPlaneZ
         ELSE Location.z

RECURSIVE SidewalkLoop(_, _, _, _, _)
SidewalkLoop(s, PropAssetPaths, Count, i, Results) ==
    IF i >= Count \/ s.Crashed THEN [v |-> Results, s |-> s]
    ELSE LET r0 == Phase([FSpawnResult EXCEPT !.AnchorName = "SidewalkBounds", !.By = "area"],
                         "AnchorOrLaneResolved")
             pos == ComputeSidewalkPosition(s)
             z == GetGroundZ(pos.s, pos.v)
             yaw == FRandRange(pos.s, 0, 360)
             tr == Xf(pos.v.x, pos.v.y, z, yaw.v)
             ai == RandRange(yaw.s, 0, Len(PropAssetPaths) - 1)
             id == GenerateInstanceId(ai.s, "prop")
             sp == SpawnActorFromAsset(id.s, PropAssetPaths[ai.v + 1], tr, id.v)
             r1 == [Phase(r0, "CandidateComputed") EXCEPT !.InstanceId = id.v,
                                                          !.SpawnedActor = sp.v]
         IN  IF sp.v # 0
             THEN SidewalkLoop([sp.s EXCEPT !.SpawnedActors = Append(@, sp.v)],
                               PropAssetPaths, Count, i + 1,
                               Append(Results,
                                      Phase([r1 EXCEPT !.FinalTransform = tr, !.bSuccess = TRUE],
                                            "Spawned")))
             ELSE SidewalkLoop(sp.s, PropAssetPaths, Count, i + 1,
                               Append(Results, Phase(r1, "Failed")))

SpawnSidewalkProps(s, PropAssetPaths, Count) ==
    IF ~s.Config.SidewalkBounds.bIsValid THEN [v |-> <<>>, s |-> s]
    ELSE IF Len(PropAssetPaths) = 0 THEN [v |-> <<>>, s |-> s]
    ELSE SidewalkLoop(s, PropAssetPaths, Count, 0, <<>>)

(***************************************************************************)
(* Cleanup and (re)initialization                                          *)
(***************************************************************************)
\* ClearAllSpawned emptying the registry without destroying the actors
ClearAllSpawned_NoDestroy(s) ==
    [s EXCEPT !.SpawnedActors = <<>>, !.InstanceCounter = 0]

\* GetSpawnCount counting only the entries whose actor still exists
GetSpawnCount_LiveOnly(s) ==
    Cardinality({i \in 1..Len(s.SpawnedActors) : s.Actors[s.SpawnedActors[i]].bValid})

GetSpawnCount(s) == Len(s.SpawnedActors)

\* ClearAllSpawned destroying every actor of the level instead of the registry's
ClearAllSpawned_WholeLevel(s) ==
    [s EXCEPT !.Actors = [h \in 1..Len(s.Actors) |-> [s.Actors[h] EXCEPT !.bValid = FALSE]],
              !.Present = {},
              !.SpawnedActors = <<>>,
              !.InstanceCounter = 0]

ClearAllSpawned(s) ==
    LET registered == {s.SpawnedActors[i] : i \in 1..Len(s.SpawnedActors)}
    IN  [s EXCEPT !.Actors = [h \in 1..Len(s.Actors) |->
                                 IF h \in registered /\ IsValidActor(s, h)
                                 THEN [s.Actors[h] EXCEPT !.bValid = FALSE]
                                 ELSE s.Actors[h]],
                  !.SpawnedActors = <<>>,
                  !.InstanceCounter = 0]

\* Initialize without the test of InWorld
Initialize_NoWorldCheck(s, InWorld, InConfig, Seed) ==
    LET r == ResolveAnchors([s EXCEPT !.World = InWorld, !.Config = InConfig,
                                      !.Random = RandomInitialize(@, Seed),
                                      !.InstanceCounter = 0])
    IN  [v |-> InWorld /\ r.v > 0, s |-> r.s]

Initialize(s, InWorld, InConfig, Seed) ==
    IF ~InWorld THEN [v |-> FALSE, s |-> s]
    ELSE LET s1 == [s EXCEPT !.World = InWorld, !.Config = InConfig,
                             !.Random = RandomInitialize(@, Seed),
                             !.InstanceCounter = 0]
             r == ResolveAnchors(s1)
         IN  [v |-> r.v > 0, s |-> r.s]

ReinitializeWithSeed(s, NewSeed) ==
    ClearAllSpawned([s EXCEPT !.Random = RandomInitialize(@, NewSeed),
                              !.InstanceCounter = 0])

(***************************************************************************)
(* The spawn system as a state machine.  A call is one step; op, ok, count *)
(* and results hold the last call and what it returned; Created is the set *)
(* of actors the system has spawned since the registry was last cleared.   *)
(***************************************************************************)
NewSystem(ambient) ==
    [World |-> FALSE, Present |-> AnchorNames \cup Background, Actors |-> <<>>,
     Config |-> DefaultConfig,
     Random |-> [CurrentSeed |-> 0, Stream |-> SeedBytes(0), CallCount |-> 0, Mutations |-> 0],
     ResolvedAnchors |-> <<>>, SpawnedActors |-> <<>>, InstanceCounter |-> 0,
     Crashed |-> FALSE, Ambient |-> ambient,
     nops |-> 0, op |-> "new", args |-> <<>>, ok |-> FALSE, count |-> 0, results |-> <<>>,
     Created |-> {}]

\* the record after a call that returned: bookkeeping of the observation
Returned(s0, s1, name, args, ok, count, results) ==
    IF s1.Crashed
    THEN [s0 EXCEPT !.Crashed = TRUE, !.op = "crash", !.args = args, !.nops = @ + 1,
                    !.ok = FALSE, !.count = 0, !.results = <<>>]
    ELSE [s1 EXCEPT !.op = name, !.args = args, !.nops = @ + 1, !.ok = ok, !.count = count,
                    !.results = results,
                    !.Created = IF name \in {"ClearAllSpawned", "ReinitializeWithSeed"}
                                THEN {}
                                ELSE @ \cup ((Len(s0.Actors) + 1)..Len(s1.Actors))]

CallInitialize(s, w, c, seed) ==
    LET r == Initialize(s, w, c, seed) IN Returned(s, r.s, "Initialize", <<w, seed>>, r.v, 0, <<>>)
CallReinitializeWithSeed(s, seed) ==
    Returned(s, ReinitializeWithSeed(s, seed), "ReinitializeWithSeed", <<seed>>, TRUE, 0, <<>>)
CallResolveAnchors(s) ==
    LET r == ResolveAnchors(s) IN Returned(s, r.s, "ResolveAnchors", <<>>, TRUE, r.v, <<>>)
CallSpawnParkingVehicles(s, vc, mx) ==
    LET r == SpawnParkingVehicles(s, vc, mx)
    IN  Returned(s, r.s, "SpawnParkingVehicles", <<Len(vc), mx>>, TRUE, 0, r.v)
CallSpawnAtParkingSlot(s, a, vc, m) ==
    LET r == SpawnAtParkingSlot(s, a, vc, m)
    IN  Returned(s, r.s, "SpawnAtParkingSlot", <<a, m>>, TRUE, 0, <<r.v>>)
CallSpawnLaneVehicles(s, vc, n) ==
    LET r == SpawnLaneVehicles(s, vc, n) IN Returned(s, r.s, "SpawnLaneVehicles", <<Len(vc), n>>, TRUE, 0, r.v)
CallSpawnAlongLane(s, l, t, vc) ==
    LET r == SpawnAlongLane(s, l, t, vc) IN Returned(s, r.s, "SpawnAlongLane", <<l, t>>, TRUE, 0, <<r.v>>)
CallSpawnSidewalkProps(s, pa, n) ==
    LET r == SpawnSidewalkProps(s, pa, n)
    IN  Returned(s, r.s, "SpawnSidewalkProps", <<Len(pa), n>>, TRUE, 0, r.v)
CallClearAllSpawned(s) ==
    Returned(s, ClearAllSpawned(s), "ClearAllSpawned", <<>>, TRUE, 0, <<>>)

\* the level changes under the system: an anchor actor is deleted or restored,
\* a spawned actor is destroyed by someone else
WorldSetPresent(s, n, b) ==
    [s EXCEPT !.Present = IF b THEN @ \cup {n} ELSE @ \ {n},
              !.op = "WorldChange", !.args = <<n, b>>, !.nops = @ + 1]
WorldDestroyActor(s, h) ==
    [s EXCEPT !.Actors[h].bValid = FALSE, !.op = "WorldChange", !.args = <<h>>,
              !.nops = @ + 1]

\* inputs of the calls
Car == FVehicleSpawnConfig("BP_Car", 1)
Truck == FVehicleSpawnConfig("SM_Car", 2)
Missing == FVehicleSpawnConfig("None", 1)
VehicleConfigLists == {<<Car>>, <<Missing, Truck>>, <<>>}
MaxVehiclesArgs == {-1, 2}
SlotArgs == {"P1", "P2"}
ParkingModes == {"PullIn", "ReverseIn"}
VehiclesPerLaneArgs == {1, 3}
LaneIdArgs == {"L1", "L9"}
TArgs == {0, 500, 1200}
PropLists == {<<"SM_Cone">>, <<"None", "SM_Cone">>}
PropCounts == {1, 2}

Live(s) == ~s.Crashed /\ s.nops < MaxOps

DoInitialize ==
    /\ Live(sys)
    /\ \E w \in BOOLEAN, c \in CallerConfigs, seed \in Seeds :
           sys' = CallInitialize(sys, w, c, seed)
    /\ UNCHANGED <<shadow, dr, calc>>
DoReinitializeWithSeed ==
    /\ Live(sys)
    /\ \E seed \in Seeds : sys' = CallReinitializeWithSeed(sys, seed)
    /\ UNCHANGED <<shadow, dr, calc>>
DoResolveAnchors ==
    /\ Live(sys)
    /\ sys' = CallResolveAnchors(sys)
    /\ UNCHANGED <<shadow, dr, calc>>
DoSpawnParkingVehicles ==
    /\ Live(sys)
    /\ \E vc \in VehicleConfigLists, mx \in MaxVehiclesArgs :
           sys' = CallSpawnParkingVehicles(sys, vc, mx)
    /\ UNCHANGED <<shadow, dr, calc>>
DoSpawnAtParkingSlot ==
    /\ Live(sys)
    /\ \E a \in SlotArgs, m \in ParkingModes : sys' = CallSpawnAtParkingSlot(sys, a, Car, m)
    /\ UNCHANGED <<shadow, dr, calc>>
DoSpawnLaneVehicles ==
    /\ Live(sys)
    /\ \E vc \in VehicleConfigLists, n \in VehiclesPerLaneArgs :
           sys' = CallSpawnLaneVehicles(sys, vc, n)
    /\ UNCHANGED <<shadow, dr, calc>>
DoSpawnAlongLane ==
    /\ Live(sys)
    /\ \E l \in LaneIdArgs, t \in TArgs : sys' = CallSpawnAlongLane(sys, l, t, Car)
    /\ UNCHANGED <<shadow, dr, calc>>
DoSpawnSidewalkProps ==
    /\ Live(sys)
    /\ \E pa \in PropLists, n \in PropCounts : sys' = CallSpawnSidewalkProps(sys, pa, n)
    /\ UNCHANGED <<shadow, dr, calc>>
DoClearAllSpawned ==
    /\ Live(sys)
    /\ sys' = CallClearAllSpawned(sys)
    /\ UNCHANGED <<shadow, dr, calc>>
DoWorldChange ==
    /\ Live(sys)
    /\ \/ \E n \in Removable, b \in BOOLEAN :
              /\ (n \in sys.Present) # b
              /\ sys' = WorldSetPresent(sys, n, b)
       \/ \E h \in 1..Len(sys.Actors) :
              /\ sys.Actors[h].bValid
              /\ sys' = WorldDestroyActor(sys, h)
    /\ UNCHANGED <<shadow, dr, calc>>

(***************************************************************************)
(* ADomainRandomization: the vehicle registry, the grid randomization and  *)
(* the authoritative world sweep.  The whole actor with its world is one   *)
(* record d; world actors are handles 1..Len(d.Actors) in spawn order, the *)
(* order in which TActorIterator visits them.                              *)
(***************************************************************************)
VehicleTag == "Vehicle"

FTransform(Loc, Yaw, Scale) == [Loc |-> Loc, Yaw |-> Yaw, Scale |-> Scale]

FVehicleRandomizationConfig ==
    [bEnabled |-> TRUE, CountRange |-> [X |-> 2, Y |-> 6],
     RotationRange |-> [X |-> 0, Y |-> 360], GroundOffset |-> 0]

\* the raw FRandomStream of the actor: [v |-> value, b |-> seed bytes after]
StreamRandRange(b, Min, Max) ==
    LET Range == (Max - Min) + 1
        b2 == MutateSeed(b)
    IN  IF Range > 0
        THEN [v |-> Min + Min2((FractionBits(b2) * Range) \div FractionDen, Range - 1),
              b |-> b2]
        ELSE [v |-> Min, b |-> b]

GetRandomFloat(b, Min, Max) ==
    LET b2 == MutateSeed(b)
    IN  [v |-> Min + (((Max - Min) * (FractionBits(b2) \div 256)) \div 32768), b |-> b2]

NewDomainRandomization ==
    [World |-> TRUE, Actors |-> <<>>, Location |-> Vec(0, 0, 0),
     Vehicles |-> FVehicleRandomizationConfig,
     RegisteredVehicles |-> <<>>, OriginalVehicleTransforms |-> <<>>,
     bVehiclesInitialized |-> FALSE, RandomStream |-> SeedBytes(0),
     bHasBegunPlay |-> FALSE, nops |-> 0, op |-> "new", ret |-> 0, visibleBefore |-> 0,
     annotated |-> <<>>]

ActorHasTag(a, Tag) == Tag \in a.Tags
GetTransform(a) == FTransform(a.Loc, a.Yaw, a.Scale)
\* a registry entry that is neither null nor a destroyed actor
IsValidVehicle(d, h) == h # 0 /\ d.Actors[h].bValid
\* the actors TActorIterator visits that carry the tag
TaggedActors(d) ==
    {h \in 1..Len(d.Actors) : d.Actors[h].bValid /\ ActorHasTag(d.Actors[h], VehicleTag)}
Contains(q, x) == \E i \in 1..Len(q) : q[i] = x
IndexOfByKey(q, x) ==
    IF Contains(q, x)
    THEN CHOOSE i \in 1..Len(q) : q[i] = x /\ \A k \in 1..(i - 1) : q[k] # x
    ELSE 0
RemoveAt(q, i) == SubSeq(q, 1, i - 1) \o SubSeq(q, i + 1, Len(q))

RECURSIVE HandlesInOrder(_, _)
\* the handles of a set, ascending
HandlesInOrder(S, h) ==
    IF S = {} THEN <<>>
    ELSE IF h \in S THEN <<h>> \o HandlesInOrder(S \ {h}, h + 1)
    ELSE HandlesInOrder(S, h + 1)

InitializeVehicleSystem(d) ==
    IF ~d.World
    THEN [d EXCEPT !.RegisteredVehicles = <<>>, !.OriginalVehicleTransforms = <<>>]
    ELSE LET Tagged == HandlesInOrder(TaggedActors(d), 1)
         IN  [d EXCEPT
                !.RegisteredVehicles = Tagged,
                !.OriginalVehicleTransforms =
                    [i \in 1..Len(Tagged) |-> GetTransform(d.Actors[Tagged[i]])],
                !.Actors = [h \in 1..Len(d.Actors) |->
                               IF h \in TaggedActors(d)
                               THEN [d.Actors[h] EXCEPT !.bHidden = TRUE]
                               ELSE d.Actors[h]],
                !.bVehiclesInitialized = TRUE]

RegisterVehicle(d, Vehicle) ==
    IF Vehicle = 0 THEN d
    ELSE IF Contains(d.RegisteredVehicles, Vehicle) THEN d
    ELSE [d EXCEPT
            !.RegisteredVehicles = Append(@, Vehicle),
            !.OriginalVehicleTransforms = Append(@, GetTransform(d.Actors[Vehicle])),
            !.Actors[Vehicle].Tags = @ \cup {VehicleTag}]

\* UnregisterVehicle dropping the last stored transform instead of the vehicle's own
UnregisterVehicle_DropLastTransform(d, Vehicle) ==
    LET Index == IndexOfByKey(d.RegisteredVehicles, Vehicle)
    IN  IF Vehicle = 0 \/ Index = 0 THEN d
        ELSE [d EXCEPT
                !.RegisteredVehicles = RemoveAt(@, Index),
                !.OriginalVehicleTransforms =
                    IF Index <= Len(@) THEN RemoveAt(@, Len(@)) ELSE @]

UnregisterVehicle(d, Vehicle) ==
    LET Index == IndexOfByKey(d.RegisteredVehicles, Vehicle)
    IN  IF Vehicle = 0 \/ Index = 0 THEN d
        ELSE [d EXCEPT
                !.RegisteredVehicles = RemoveAt(@, Index),
                !.OriginalVehicleTransforms =
                    IF Index <= Len(@) THEN RemoveAt(@, Index) ELSE @]

HideUndergroundZ == -100000

\* the hard cleanup of one actor: hide, disable collision, move underground
HardCleanup(a) ==
    [a EXCEPT !.bHidden = TRUE, !.bCollision = FALSE, !.Loc.z = HideUndergroundZ]

GetVisibleVehicleCountWorldSweep(d) ==
    IF ~d.World THEN 0
    ELSE Cardinality({h \in TaggedActors(d) : ~d.Actors[h].bHidden})

\* HideAllVehicles going through the registry only
HideAllVehicles_RegistryOnly(d) ==
    IF ~d.World THEN [v |-> 0, d |-> d]
    ELSE LET Reg == {h \in 1..Len(d.Actors) :
                        Contains(d.RegisteredVehicles, h) /\ IsValidVehicle(d, h)}
         IN  [v |-> Cardinality(Reg),
              d |-> [d EXCEPT !.Actors = [h \in 1..Len(d.Actors) |->
                        IF h \in Reg THEN HardCleanup(d.Actors[h]) ELSE d.Actors[h]]]]

\* HideAllVehicles: [v |-> HiddenCount, d |-> the actor and world afterwards]
HideAllVehicles(d) ==
    IF ~d.World THEN [v |-> 0, d |-> d]
    ELSE LET Swept == [h \in 1..Len(d.Actors) |->
                          IF h \in TaggedActors(d) THEN HardCleanup(d.Actors[h])
                          ELSE d.Actors[h]]
             Leaked(h) == /\ Contains(d.RegisteredVehicles, h)
                          /\ Swept[h].bValid
                          /\ ~Swept[h].bHidden
         IN  [v |-> Cardinality(TaggedActors(d)),
              d |-> [d EXCEPT !.Actors = [h \in 1..Len(d.Actors) |->
                        IF Leaked(h) THEN HardCleanup(Swept[h]) ELSE Swept[h]]]]

RandomizeUndergroundZ == -10000
GRID_SPACING == 3000
SlotOffset == 500

\* step 1 of RandomizeVehicles: scales restored, every registered vehicle
\* underground, hidden and without collision
MoveAllUnderground(d) ==
    [d EXCEPT !.Actors = [h \in 1..Len(d.Actors) |->
        LET i == IndexOfByKey(d.RegisteredVehicles, h)
        IN  IF i # 0 /\ d.Actors[h].bValid
            THEN [d.Actors[h] EXCEPT
                    !.Scale = IF i <= Len(d.OriginalVehicleTransforms)
                              THEN d.OriginalVehicleTransforms[i].Scale ELSE @,
                    !.Loc.z = RandomizeUndergroundZ,
                    !.bHidden = TRUE,
                    !.bCollision = FALSE]
            ELSE d.Actors[h]]]

RECURSIVE StreamShuffle(_, _, _)
\* Fisher-Yates on the actor's stream: i runs from Num - 1 down to 1 (0-based)
StreamShuffle(b, q, i) ==
    IF i <= 0 THEN [v |-> q, b |-> b]
    ELSE LET j == StreamRandRange(b, 0, i)
         IN  StreamShuffle(j.b, Swap(q, i + 1, j.v + 1), i - 1)

GridSlots(SpawnCenter) ==
    <<Vec(SpawnCenter.x, SpawnCenter.y - GRID_SPACING, SpawnCenter.z),
      Vec(SpawnCenter.x - GRID_SPACING, SpawnCenter.y, SpawnCenter.z),
      Vec(SpawnCenter.x, SpawnCenter.y, SpawnCenter.z),
      Vec(SpawnCenter.x + GRID_SPACING, SpawnCenter.y, SpawnCenter.z),
      Vec(SpawnCenter.x, SpawnCenter.y + GRID_SPACING, SpawnCenter.z)>>

RECURSIVE PlaceLoop(_, _, _, _, _, _, _)
\* step 4 of RandomizeVehicles from loop index i and SlotIndex (both 0-based)
PlaceLoop(d, VehicleIndices, Slots, VehiclesToShow, i, SlotIndex, GroundZ) ==
    IF ~(i < VehiclesToShow /\ i < Len(VehicleIndices) /\ SlotIndex < Len(Slots))
    THEN d
    ELSE LET Vehicle == d.RegisteredVehicles[VehicleIndices[i + 1] + 1]
         IN  IF ~IsValidVehicle(d, Vehicle)
             THEN PlaceLoop(d, VehicleIndices, Slots, VehiclesToShow, i + 1, SlotIndex, GroundZ)
             ELSE LET SlotPosition == Slots[SlotIndex + 1]
                      OffsetX == GetRandomFloat(d.RandomStream, -SlotOffset, SlotOffset)
                      OffsetY == GetRandomFloat(OffsetX.b, -SlotOffset, SlotOffset)
                      NewYaw == GetRandomFloat(OffsetY.b, d.Vehicles.RotationRange.X,
                                               d.Vehicles.RotationRange.Y)
                      d1 == [d EXCEPT
                               !.RandomStream = NewYaw.b,
                               !.Actors[Vehicle] = [@ EXCEPT
                                   !.Loc = Vec(SlotPosition.x + OffsetX.v,
                                               SlotPosition.y + OffsetY.v, GroundZ),
                                   !.Yaw = NewYaw.v,
                                   !.bHidden = FALSE,
                                   !.bCollision = TRUE]]
                  IN  PlaceLoop(d1, VehicleIndices, Slots, VehiclesToShow,
                                i + 1, SlotIndex + 1, GroundZ)

RandomizeVehicles(d) ==
    IF ~d.Vehicles.bEnabled THEN d
    ELSE LET d1 == IF ~d.bVehiclesInitialized \/ Len(d.RegisteredVehicles) = 0
                   THEN InitializeVehicleSystem(d) ELSE d
         IN  IF Len(d1.RegisteredVehicles) = 0 THEN d1
             ELSE LET d2 == MoveAllUnderground(d1)
                      Num == Len(d2.RegisteredVehicles)
                      Count == StreamRandRange(d2.RandomStream, d2.Vehicles.CountRange.X,
                                               Min2(d2.Vehicles.CountRange.Y, Num))
                      VehicleIndices == StreamShuffle(Count.b, [k \in 1..Num |-> k - 1], Num - 1)
                      Slots == StreamShuffle(VehicleIndices.b, GridSlots(d2.Location), 4)
                  IN  PlaceLoop([d2 EXCEPT !.RandomStream = Slots.b],
                                VehicleIndices.v, Slots.v, Min2(Count.v, Len(Slots.v)),
                                0, 0, d2.Location.z + d2.Vehicles.GroundOffset)

\* ResetVehicles applying what transforms there are, without comparing the counts
ResetVehicles_NoCountCheck(d) ==
    [d EXCEPT !.Actors = [h \in 1..Len(d.Actors) |->
        LET i == IndexOfByKey(d.RegisteredVehicles, h)
        IN  IF i # 0 /\ i <= Len(d.OriginalVehicleTransforms) /\ d.Actors[h].bValid
            THEN [d.Actors[h] EXCEPT
                    !.Loc = d.OriginalVehicleTransforms[i].Loc,
                    !.Yaw = d.OriginalVehicleTransforms[i].Yaw,
                    !.Scale = d.OriginalVehicleTransforms[i].Scale,
                    !.bHidden = FALSE]
            ELSE d.Actors[h]]]

ResetVehicles(d) ==
    IF Len(d.RegisteredVehicles) # Len(d.OriginalVehicleTransforms) THEN d
    ELSE [d EXCEPT !.Actors = [h \in 1..Len(d.Actors) |->
            LET i == IndexOfByKey(d.RegisteredVehicles, h)
            IN  IF i # 0 /\ d.Actors[h].bValid
                THEN [d.Actors[h] EXCEPT
                        !.Loc = d.OriginalVehicleTransforms[i].Loc,
                        !.Yaw = d.OriginalVehicleTransforms[i].Yaw,
                        !.Scale = d.OriginalVehicleTransforms[i].Scale,
                        !.bHidden = FALSE]
                ELSE d.Actors[h]]]

\* the level: an actor placed or spawned by other code, and one destroyed
LevelSpawnActor(d, Tags, Class) ==
    [d EXCEPT !.Actors = Append(@,
        [Tags |-> Tags, Class |-> Class, bHidden |-> FALSE, bCollision |-> TRUE,
         Loc |-> Vec(1000 * (Len(d.Actors) + 1), 0, 0), Yaw |-> 0, Scale |-> 1,
         bValid |-> TRUE])]

LevelDestroyActor(d, h) == [d EXCEPT !.Actors[h].bValid = FALSE]

(***************************************************************************)
(* Annotation (ADataCapture) over the level of the domain randomization    *)
(* actor.  A camera P is what ProjectWorldLocationToScreen computes with:  *)
(* no player controller, a top-down view, or a table from world points to  *)
(* screen points.  Every annotation carries, as a ghost, the actor it      *)
(* describes.                                                              *)
(***************************************************************************)
\* stands for FLT_MAX: larger than every screen coordinate
FLT_MAX == 1000000000
FVector2D(X, Y) == [X |-> X, Y |-> Y]

\* AActor::GetActorBounds of a level actor: a car-sized box around its location
GetActorBounds(a) ==
    [Origin |-> a.Loc, Extent |-> Vec(250 * a.Scale, 100 * a.Scale, 75 * a.Scale)]

\* the 8 corners in the order CalculateBoundingBox adds them
BoxCorners(Origin, Extent) ==
    << Vec(Origin.x + Extent.x, Origin.y + Extent.y, Origin.z + Extent.z),
       Vec(Origin.x + Extent.x, Origin.y + Extent.y, Origin.z - Extent.z),
       Vec(Origin.x + Extent.x, Origin.y - Extent.y, Origin.z + Extent.z),
       Vec(Origin.x + Extent.x, Origin.y - Extent.y, Origin.z - Extent.z),
       Vec(Origin.x - Extent.x, Origin.y + Extent.y, Origin.z + Extent.z),
       Vec(Origin.x - Extent.x, Origin.y + Extent.y, Origin.z - Extent.z),
       Vec(Origin.x - Extent.x, Origin.y - Extent.y, Origin.z + Extent.z),
       Vec(Origin.x - Extent.x, Origin.y - Extent.y, Origin.z - Extent.z) >>

ProjectWorldToScreen(P, WorldLocation) ==
    CASE P.kind = "none" -> FVector2D(0, 0)
      [] P.kind = "top" -> FVector2D(WorldLocation.x, WorldLocation.y)
      [] OTHER -> P.at[WorldLocation]

\* CalculateBoundingBox taking the first corner's projection for both bounds
CalculateBoundingBox_FirstCorner(d, Actor, P) ==
    IF Actor = 0 THEN [v |-> FALSE, OutMin |-> FVector2D(0, 0), OutMax |-> FVector2D(0, 0)]
    ELSE LET B == GetActorBounds(d.Actors[Actor])
             ScreenPos == ProjectWorldToScreen(P, BoxCorners(B.Origin, B.Extent)[1])
         IN  [v |-> TRUE, OutMin |-> ScreenPos, OutMax |-> ScreenPos]

RECURSIVE ProjectLoop(_, _, _, _)
\* the loop over Corners from index i; b holds MinX, MinY, MaxX, MaxY
ProjectLoop(Corners, i, b, P) ==
    IF i > Len(Corners) THEN b
    ELSE LET ScreenPos == ProjectWorldToScreen(P, Corners[i])
         IN  ProjectLoop(Corners, i + 1,
                         [MinX |-> Min2(b.MinX, ScreenPos.X), MinY |-> Min2(b.MinY, ScreenPos.Y),
                          MaxX |-> Max2(b.MaxX, ScreenPos.X), MaxY |-> Max2(b.MaxY, ScreenPos.Y)],
                         P)

\* CalculateBoundingBox: [v |-> returned flag, OutMin, OutMax]
CalculateBoundingBox(d, Actor, P) ==
    IF Actor = 0 THEN [v |-> FALSE, OutMin |-> FVector2D(0, 0), OutMax |-> FVector2D(0, 0)]
    ELSE LET B == GetActorBounds(d.Actors[Actor])
             b == ProjectLoop(BoxCorners(B.Origin, B.Extent), 1,
                              [MinX |-> FLT_MAX, MinY |-> FLT_MAX,
                               MaxX |-> -FLT_MAX, MaxY |-> -FLT_MAX], P)
         IN  [v |-> TRUE, OutMin |-> FVector2D(b.MinX, b.MinY),
              OutMax |-> FVector2D(b.MaxX, b.MaxY)]

\* the actors TActorIterator visits that carry one of the tags, in iteration order
GetAnnotatableActors(d, FilterTags) ==
    IF ~d.World THEN <<>>
    ELSE HandlesInOrder({h \in 1..Len(d.Actors) :
                            /\ d.Actors[h].bValid
                            /\ \E i \in 1..Len(FilterTags) : ActorHasTag(d.Actors[h], FilterTags[i])},
                        1)

RECURSIVE BoxLoop(_, _, _, _, _)
\* the loop of GenerateBoundingBoxes over Actors from index i
BoxLoop(d, Actors, i, P, AnnotationsArray) ==
    IF i > Len(Actors) THEN AnnotationsArray
    ELSE LET r == CalculateBoundingBox(d, Actors[i], P)
             AnnotationObj ==
                 [actor |-> Actors[i], class |-> d.Actors[Actors[i]].Class,
                  x_min |-> r.OutMin.X, y_min |-> r.OutMin.Y,
                  x_max |-> r.OutMax.X, y_max |-> r.OutMax.Y,
                  width |-> r.OutMax.X - r.OutMin.X, height |-> r.OutMax.Y - r.OutMin.Y]
         IN  BoxLoop(d, Actors, i + 1, P,
                     IF Actors[i] # 0 /\ r.v THEN Append(AnnotationsArray, AnnotationObj)
                     ELSE AnnotationsArray)

GenerateBoundingBoxes(d, TargetTags, P) ==
    BoxLoop(d, GetAnnotatableActors(d, TargetTags), 1, P, <<>>)

\* GeneratePoseAnnotations leaving out the actors that are hidden
GeneratePoseAnnotations_SkipHidden(d, TargetTags) ==
    LET All == GetAnnotatableActors(d, TargetTags)
        Actors == HandlesInOrder({All[i] : i \in {k \in 1..Len(All) : ~d.Actors[All[k]].bHidden}}, 1)
    IN  [i \in 1..Len(Actors) |->
            [actor |-> Actors[i], class |-> d.Actors[Actors[i]].Class,
             translation |-> d.Actors[Actors[i]].Loc,
             rotation |-> <<0, 0, d.Actors[Actors[i]].Yaw>>,
             scale |-> d.Actors[Actors[i]].Scale]]

GeneratePoseAnnotations(d, TargetTags) ==
    LET Actors == GetAnnotatableActors(d, TargetTags)
    IN  [i \in 1..Len(Actors) |->
            [actor |-> Actors[i], class |-> d.Actors[Actors[i]].Class,
             translation |-> d.Actors[Actors[i]].Loc,
             rotation |-> <<0, 0, d.Actors[Actors[i]].Yaw>>,
             scale |-> d.Actors[Actors[i]].Scale]]

Init ==
    /\ sys = NewSystem(1)
    /\ shadow = NewSystem(2)
    /\ dr = NewDomainRandomization
    /\ calc = [fn |-> "none", in |-> <<>>, out |-> <<>>]

Next ==
    \/ DoInitialize
    \/ DoReinitializeWithSeed
    \/ DoResolveAnchors
    \/ DoSpawnParkingVehicles
    \/ DoSpawnAtParkingSlot
    \/ DoSpawnLaneVehicles
    \/ DoSpawnAlongLane
    \/ DoSpawnSidewalkProps
    \/ DoClearAllSpawned
    \/ DoWorldChange

Spec == Init /\ [][Next]_vars

(***************************************************************************)
(* Two independent runs driven by the same calls on the same level.  The   *)
(* runs differ in Ambient, which stands for whatever differs between two   *)
(* processes (the global unseeded generator, the clock, the heap).         *)
(***************************************************************************)
MaxDetOps == 4

LiveDet == ~sys.Crashed /\ sys.nops < MaxDetOps

\* the same call made on both runs: run[s] is the object s after the call
Both(run) == sys' = run[sys] /\ shadow' = run[shadow] /\ UNCHANGED <<dr, calc>>

DetInitialize ==
    /\ LiveDet
    /\ \E w \in BOOLEAN, c \in CallerConfigs, seed \in Seeds :
           Both([s \in {sys, shadow} |-> CallInitialize(s, w, c, seed)])
DetReinitializeWithSeed ==
    /\ LiveDet
    /\ \E seed \in Seeds :
           Both([s \in {sys, shadow} |-> CallReinitializeWithSeed(s, seed)])
DetSpawnParkingVehicles ==
    /\ LiveDet
    /\ \E vc \in VehicleConfigLists, mx \in MaxVehiclesArgs :
           Both([s \in {sys, shadow} |-> CallSpawnParkingVehicles(s, vc, mx)])
DetSpawnLaneVehicles ==
    /\ LiveDet
    /\ \E vc \in VehicleConfigLists, n \in VehiclesPerLaneArgs :
           Both([s \in {sys, shadow} |-> CallSpawnLaneVehicles(s, vc, n)])
DetSpawnSidewalkProps ==
    /\ LiveDet
    /\ \E pa \in PropLists, n \in PropCounts :
           Both([s \in {sys, shadow} |-> CallSpawnSidewalkProps(s, pa, n)])
DetClearAllSpawned ==
    /\ LiveDet
    /\ Both([s \in {sys, shadow} |-> CallClearAllSpawned(s)])

NextDet ==
    \/ DetInitialize
    \/ DetReinitializeWithSeed
    \/ DetSpawnParkingVehicles
    \/ DetSpawnLaneVehicles
    \/ DetSpawnSidewalkProps
    \/ DetClearAllSpawned

SpecDet == Init /\ [][NextDet]_vars

(***************************************************************************)
(* The domain randomization actor in its level: calls from the capture     *)
(* driver interleaved with other code spawning and destroying actors.      *)
(***************************************************************************)
DrReturned(d0, d1, name, ret) ==
    [d1 EXCEPT !.nops = d0.nops + 1, !.op = name, !.ret = ret,
               !.visibleBefore = GetVisibleVehicleCountWorldSweep(d0),
               !.annotated = <<>>]

LiveDr == dr.nops < MaxDrOps

DrBeginPlay ==
    /\ LiveDr
    /\ ~dr.bHasBegunPlay
    /\ dr' = DrReturned(dr, [InitializeVehicleSystem(dr) EXCEPT !.bHasBegunPlay = TRUE],
                        "BeginPlay", 0)
    /\ UNCHANGED <<sys, shadow, calc>>

DrRegisterVehicle ==
    /\ LiveDr
    /\ \E h \in 0..Len(dr.Actors) :
           /\ h # 0 => dr.Actors[h].bValid
           /\ dr' = DrReturned(dr, RegisterVehicle(dr, h), "RegisterVehicle", 0)
    /\ UNCHANGED <<sys, shadow, calc>>

DrUnregisterVehicle ==
    /\ LiveDr
    /\ \E h \in 0..Len(dr.Actors) :
           /\ h # 0 => dr.Actors[h].bValid
           /\ dr' = DrReturned(dr, UnregisterVehicle(dr, h), "UnregisterVehicle", 0)
    /\ UNCHANGED <<sys, shadow, calc>>

DrRandomizeVehicles ==
    /\ LiveDr
    /\ dr' = DrReturned(dr, RandomizeVehicles(dr), "RandomizeVehicles", 0)
    /\ UNCHANGED <<sys, shadow, calc>>

DrHideAllVehicles ==
    /\ LiveDr
    /\ LET r == HideAllVehicles(dr)
       IN  dr' = DrReturned(dr, r.d, "HideAllVehicles", r.v)
    /\ UNCHANGED <<sys, shadow, calc>>

DrResetVehicles ==
    /\ LiveDr
    /\ dr' = DrReturned(dr, ResetVehicles(dr), "ResetVehicles", 0)
    /\ UNCHANGED <<sys, shadow, calc>>

DrLevelSpawn ==
    /\ LiveDr
    /\ \E a \in {<<{VehicleTag}, "BP_Car_C">>, <<{VehicleTag}, "StaticMeshActor">>,
                  <<{"Prop"}, "StaticMeshActor">>} :
           dr' = DrReturned(dr, LevelSpawnActor(dr, a[1], a[2]), "LevelSpawn", 0)
    /\ UNCHANGED <<sys, shadow, calc>>

DrLevelDestroy ==
    /\ LiveDr
    /\ \E h \in 1..Len(dr.Actors) :
           /\ dr.Actors[h].bValid
           /\ dr' = DrReturned(dr, LevelDestroyActor(dr, h), "LevelDestroy", 0)
    /\ UNCHANGED <<sys, shadow, calc>>

\* the tag lists and cameras of an annotation call
TargetTagLists == {<<VehicleTag>>, <<"Prop", VehicleTag>>}
LevelCameras == {[kind |-> "none"], [kind |-> "top"]}

DrGenerateBoundingBoxes ==
    /\ LiveDr
    /\ \E TargetTags \in TargetTagLists, P \in LevelCameras :
           dr' = [DrReturned(dr, dr, "GenerateBoundingBoxes", TargetTags)
                     EXCEPT !.annotated = GenerateBoundingBoxes(dr, TargetTags, P)]
    /\ UNCHANGED <<sys, shadow, calc>>

DrGeneratePoseAnnotations ==
    /\ LiveDr
    /\ \E TargetTags \in TargetTagLists :
           dr' = [DrReturned(dr, dr, "GeneratePoseAnnotations", TargetTags)
                     EXCEPT !.annotated = GeneratePoseAnnotations(dr, TargetTags)]
    /\ UNCHANGED <<sys, shadow, calc>>

NextDR ==
    \/ DrGenerateBoundingBoxes
    \/ DrGeneratePoseAnnotations
    \/ DrBeginPlay
    \/ DrRegisterVehicle
    \/ DrUnregisterVehicle
    \/ DrRandomizeVehicles
    \/ DrHideAllVehicles
    \/ DrResetVehicles
    \/ DrLevelSpawn
    \/ DrLevelDestroy

SpecDR == Init /\ [][NextDR]_vars

(***************************************************************************)
(* Visibility of a vehicle's bounds from a camera.  Camera rotations are   *)
(* whole quarter turns, so the forward vector is integral; the field of    *)
(* view is one whose effective half angle has a rational squared cosine.   *)
(* The result is in tenths of a percent.                                   *)
(***************************************************************************)
VSub(a, b) == Vec(a.x - b.x, a.y - b.y, a.z - b.z)
DotProduct(a, b) == a.x * b.x + a.y * b.y + a.z * b.z

FRotator(Pitch, Yaw) == [Pitch |-> Pitch, Yaw |-> Yaw]
\* FRotator::Vector(), for whole quarter turns
RotatorVector(R) ==
    LET Cos90(deg) == CASE deg % 360 = 0 -> 1 [] deg % 360 = 180 -> -1 [] OTHER -> 0
        Sin90(deg) == CASE deg % 360 = 90 -> 1 [] deg % 360 = 270 -> -1 [] OTHER -> 0
    IN  Vec(Cos90(R.Pitch) * Cos90(R.Yaw), Cos90(R.Pitch) * Sin90(R.Yaw), Sin90(R.Pitch))

\* the 8 corners of the bounds, in the order the code adds them
BoundsCorners(Origin, Extent) ==
    << Vec(Origin.x - Extent.x, Origin.y - Extent.y, Origin.z - Extent.z),
       Vec(Origin.x - Extent.x, Origin.y - Extent.y, Origin.z + Extent.z),
       Vec(Origin.x - Extent.x, Origin.y + Extent.y, Origin.z - Extent.z),
       Vec(Origin.x - Extent.x, Origin.y + Extent.y, Origin.z + Extent.z),
       Vec(Origin.x + Extent.x, Origin.y - Extent.y, Origin.z - Extent.z),
       Vec(Origin.x + Extent.x, Origin.y - Extent.y, Origin.z + Extent.z),
       Vec(Origin.x + Extent.x, Origin.y + Extent.y, Origin.z - Extent.z),
       Vec(Origin.x + Extent.x, Origin.y + Extent.y, Origin.z + Extent.z) >>

\* cos^2 of the effective half angle HalfFOV * 0.8, as <<numerator, denominator>>
CosSqEffectiveFOV(FOV) == IF FOV = 75 THEN <<3, 4>> ELSE <<1, 4>>

\* ForwardDot < 0 for the normalized direction to the corner
BehindCamera(Corner, CameraLocation, CameraForward) ==
    DotProduct(VSub(Corner, CameraLocation), CameraForward) < 0
\* Abs(Acos(ForwardDot)) < EffectiveFOV, for ForwardDot >= 0
InsideCone(Corner, CameraLocation, CameraForward, FOV) ==
    LET v == VSub(Corner, CameraLocation)
        d == DotProduct(v, CameraForward)
        c == CosSqEffectiveFOV(FOV)
    IN  d * d * c[2] > c[1] * DotProduct(v, v)

RECURSIVE CountVisibleCorners(_, _, _, _, _, _)
\* the loop over Corners from index i with VisibleCorners = n
CountVisibleCorners(Corners, i, n, CameraLocation, CameraForward, FOV) ==
    IF i > Len(Corners) THEN n
    ELSE IF BehindCamera(Corners[i], CameraLocation, CameraForward)
    THEN CountVisibleCorners(Corners, i + 1, n, CameraLocation, CameraForward, FOV)
    ELSE IF InsideCone(Corners[i], CameraLocation, CameraForward, FOV)
    THEN CountVisibleCorners(Corners, i + 1, n + 1, CameraLocation, CameraForward, FOV)
    ELSE CountVisibleCorners(Corners, i + 1, n, CameraLocation, CameraForward, FOV)

\* CalculateVisibilityPercentage counting a corner behind the camera like one in front
CalculateVisibilityPercentage_NoFrontTest(Vehicle, CameraLocation, CameraRotation, FOV) ==
    IF Vehicle.bNull THEN 0
    ELSE LET Corners == BoundsCorners(Vehicle.Origin, Vehicle.Extent)
             F == RotatorVector(CameraRotation)
         IN  (Cardinality({i \in 1..8 : InsideCone(Corners[i], CameraLocation, F, FOV)})
                 * 1000) \div 8

CalculateVisibilityPercentage(Vehicle, CameraLocation, CameraRotation, FOV) ==
    IF Vehicle.bNull THEN 0
    ELSE LET Corners == BoundsCorners(Vehicle.Origin, Vehicle.Extent)
             VisibleCorners == CountVisibleCorners(Corners, 1, 0, CameraLocation,
                                                   RotatorVector(CameraRotation), FOV)
         IN  (VisibleCorners * 1000) \div 8

(***************************************************************************)
(* Single evaluations of functions of the code on inputs from bounded      *)
(* sets.  A function that draws does so from a stream seeded with one of   *)
(* the seeds 0..MaxCalcSeed.                                               *)
(***************************************************************************)
CalcSeeds == 0..MaxCalcSeed
\* a spawn system whose stream was just seeded
Seeded(seed) == [NewSystem(0) EXCEPT !.Random = RandomInitialize(@, seed)]
\* the index array 0..N-1
Iota(N) == [k \in 1..N |-> k - 1]
Evaluated(fn, in, out) == [fn |-> fn, in |-> in, out |-> out]
\* nothing has been evaluated yet: each behaviour evaluates one function once
NotEvaluated == calc.fn = "none"

CalcShuffle ==
    /\ NotEvaluated
    /\ \E N \in 0..MaxPool, seed \in CalcSeeds :
           calc' = Evaluated("Shuffle", <<N, seed>>, Shuffle(Seeded(seed), Iota(N), N - 1).v)
    /\ UNCHANGED <<sys, shadow, dr>>

CalcStreamShuffle ==
    /\ NotEvaluated
    /\ \E N \in 0..MaxPool, seed \in CalcSeeds :
           calc' = Evaluated("StreamShuffle", <<N, seed>>,
                             StreamShuffle(SeedBytes(seed), Iota(N), N - 1).v)
    /\ UNCHANGED <<sys, shadow, dr>>

\* the parking rows of the level and the configuration of a batch over one of them
\* with reverse parking switched off
ParkingRows == {<<"A1", "A2", "A3", "A4", "A5">>, <<"B1", "B2", "B3", "B4", "B5">>}
RowConfig(row) ==
    [FAnchorSpawnConfig(row, <<>>, FSidewalkBounds("", "")) EXCEPT !.ReverseParkingProbability = 0]
RowSystem(row, seed) ==
    Initialize([NewSystem(0) EXCEPT !.Present = {row[k] : k \in 1..Len(row)}],
               TRUE, RowConfig(row), seed).s

\* Initialize over a row, then SpawnParkingVehicles with MaxVehicles = 3
CalcParkingBatch ==
    /\ NotEvaluated
    /\ \E row \in ParkingRows, seed \in CalcSeeds :
           calc' = Evaluated("SpawnParkingVehicles", <<row, seed>>,
                             SpawnParkingVehicles(RowSystem(row, seed), <<Car>>, 3).v)
    /\ UNCHANGED <<sys, shadow, dr>>

CalcRandBool ==
    /\ NotEvaluated
    /\ \E p \in {0, 30, 100}, seed \in CalcSeeds :
           calc' = Evaluated("RandBool", <<p, seed>>, <<RandBool(Seeded(seed), p).v>>)
    /\ UNCHANGED <<sys, shadow, dr>>

\* the vehicles whose visibility is asked for: a null pointer, and actors with the
\* bounds of a car or of a point
VisVehicles ==
    {[bNull |-> TRUE, Origin |-> Vec(0, 0, 0), Extent |-> Vec(0, 0, 0)]} \cup
    {[bNull |-> FALSE, Origin |-> Vec(x, y, 75), Extent |-> e] :
        x \in {-600, 0, 200, 600}, y \in {-300, 0, 400},
        e \in {Vec(250, 100, 75), Vec(0, 0, 0)}}

\* cameras at two locations, rotated by whole quarter turns, with two fields of view
CalcVisibility ==
    /\ NotEvaluated
    /\ \E V \in VisVehicles, L \in {Vec(0, 0, 0), Vec(0, 0, 150)},
          R \in {FRotator(0, 0), FRotator(0, 90), FRotator(0, 180), FRotator(0, 270),
                 FRotator(90, 0), FRotator(270, 0)},
          FOV \in {75, 150} :
           calc' = Evaluated("CalculateVisibilityPercentage", <<V, L, R, FOV>>,
                             <<CalculateVisibilityPercentage(V, L, R, FOV)>>)
    /\ UNCHANGED <<sys, shadow, dr>>

\* a level holding one tagged actor of the given scale (0: bounds of a point)
OneActorLevel(Scale) ==
    [LevelSpawnActor(NewDomainRandomization, {VehicleTag}, "BP_Car_C") EXCEPT !.Actors[1].Scale = Scale]
\* the cameras of that level: none, top-down, and every table from its corners to
\* three screen points
TableCameras(d) ==
    LET B == GetActorBounds(d.Actors[1])
        Corners == BoxCorners(B.Origin, B.Extent)
        ScreenPoints == {FVector2D(0, 0), FVector2D(640, -20), FVector2D(-35, 480)}
    IN  {[kind |-> "table", at |-> f] : f \in [{Corners[i] : i \in 1..8} -> ScreenPoints]}

CalcBoundingBoxes ==
    /\ NotEvaluated
    /\ \E Scale \in {0, 1} :
         \E P \in LevelCameras \cup TableCameras(OneActorLevel(Scale)) :
           calc' = Evaluated("GenerateBoundingBoxes", <<Scale, P>>,
                             GenerateBoundingBoxes(OneActorLevel(Scale), <<VehicleTag>>, P))
    /\ UNCHANGED <<sys, shadow, dr>>

\* the actors ResetVehicles is called on: a level of three actors, all hidden
\* underground and the second possibly destroyed, a registry of up to three of them
\* and any list of up to three stored transforms.  The registry is a UPROPERTY and
\* the transform list is not, so a copy or a reload of the actor keeps the one
\* without the other.
ResetInputs ==
    LET L0 == LevelSpawnActor(LevelSpawnActor(LevelSpawnActor(NewDomainRandomization,
                  {VehicleTag}, "BP_Car_C"), {VehicleTag}, "BP_Car_C"), {"Prop"}, "StaticMeshActor")
        Level(destroyed) ==
            [L0 EXCEPT !.Actors = [h \in 1..3 |->
                [L0.Actors[h] EXCEPT !.bHidden = TRUE, !.Loc.z = RandomizeUndergroundZ,
                                     !.bValid = ~(destroyed /\ h = 2)]]]
        Stored == {FTransform(Vec(100, 200, 0), 90, 1), FTransform(Vec(-300, 0, 0), 0, 2)}
    IN  {[Level(x) EXCEPT !.RegisteredVehicles = reg, !.OriginalVehicleTransforms = orig] :
            x \in BOOLEAN,
            reg \in {<<>>, <<1>>, <<2, 1>>, <<1, 2, 3>>},
            orig \in UNION {[1..n -> Stored] : n \in 0..3}}

CalcResetVehicles ==
    /\ NotEvaluated
    /\ \E d \in ResetInputs :
           calc' = Evaluated("ResetVehicles", <<d>>, <<ResetVehicles(d)>>)
    /\ UNCHANGED <<sys, shadow, dr>>

NextCalc ==
    \/ CalcResetVehicles
    \/ CalcBoundingBoxes
    \/ CalcVisibility
    \/ CalcShuffle
    \/ CalcStreamShuffle
    \/ CalcParkingBatch
    \/ CalcRandBool

SpecCalc == Init /\ [][NextCalc]_vars

(***************************************************************************)
(* Properties of the spawn system                                          *)
(***************************************************************************)
\* registry positions whose actor is still alive
LiveRegistered(s) == {i \in 1..Len(s.SpawnedActors) : IsValidActor(s, s.SpawnedActors[i])}
RegLoc(s, i) == s.Actors[s.SpawnedActors[i]].Loc
\* the strategy that placed the actor at registry position i, from its instance id
PlacedBy(s, i) == s.Actors[s.SpawnedActors[i]].Name[1]
Results(s) == {s.results[i] : i \in 1..Len(s.results)}
OverlapFailed(r) == ~r.bSuccess /\ r.FailureReason = "Overlap with existing vehicle"
\* the last call ran Random.Initialize / ran ResolveAnchors
ResetRan(s) == s.op = "ReinitializeWithSeed" \/ (s.op = "Initialize" /\ s.args[1])
ResolveRan(s) == s.op = "ResolveAnchors" \/ (s.op = "Initialize" /\ s.args[1])
Found(s, n) == s.World /\ n # "" /\ n \in s.Present

Terminal == {"Spawned", "Failed"}
MachineEdges ==
    {<<"Idle", "AnchorOrLaneResolved">>, <<"AnchorOrLaneResolved", "CandidateComputed">>,
     <<"CandidateComputed", "CollisionChecked">>, <<"CollisionChecked", "CandidateComputed">>,
     <<"CollisionChecked", "Spawned">>, <<"CollisionChecked", "Failed">>,
     <<"Idle", "Failed">>, <<"AnchorOrLaneResolved", "Failed">>,
     <<"CandidateComputed", "Failed">>}
\* r's path starts Idle, moves along the edges, and its only terminal state is its last
FollowsMachine(r, edges) ==
    /\ r.Phases[1] = "Idle"
    /\ \A k \in 1..(Len(r.Phases) - 1) :
           /\ <<r.Phases[k], r.Phases[k + 1]>> \in edges
           /\ r.Phases[k] \notin Terminal
    /\ r.Phases[Len(r.Phases)] \in Terminal
    /\ r.bSuccess <=> (r.Phases[Len(r.Phases)] = "Spawned")

C5_SweepHidesEveryTagged ==
    dr.op = "HideAllVehicles" =>
        /\ \A h \in TaggedActors(dr) :
               /\ dr.Actors[h].bHidden
               /\ ~dr.Actors[h].bCollision
               /\ dr.Actors[h].Loc.z = HideUndergroundZ
        /\ GetVisibleVehicleCountWorldSweep(dr) = 0
\* a sweep that hid a visible tagged actor the registry does not hold, next to
\* a registered one
C5_Witness ==
    /\ dr.op = "HideAllVehicles"
    /\ dr.visibleBefore >= 2
    /\ \E h \in TaggedActors(dr) : ~Contains(dr.RegisteredVehicles, h)
    /\ \E h \in TaggedActors(dr) : Contains(dr.RegisteredVehicles, h)

\* C6: a ClearAllSpawned call destroys every actor spawned since the previous
\* clear and leaves the registry empty, GetSpawnCount() = 0.
C6_ClearDestroysAll ==
    [][(sys'.op = "ClearAllSpawned" /\ sys'.nops = sys.nops + 1)
          => /\ \A h \in sys.Created : ~sys'.Actors[h].bValid
             /\ sys'.SpawnedActors = <<>>
             /\ GetSpawnCount(sys') = 0]_vars
C6_Witness ==
    /\ sys.op = "ClearAllSpawned"
    /\ Len(sys.Actors) >= 2
    /\ \A h \in 1..Len(sys.Actors) : ~sys.Actors[h].bValid

\* C7: right after Initialize (with a world) or ReinitializeWithSeed, callCount
\* is 0, the stream restarts from the new seed, and the registry is empty.
C7_ResetInvalidatesAll ==
    ResetRan(sys) =>
        /\ sys.Random.CallCount = 0
        /\ sys.Random.CurrentSeed = sys.args[Len(sys.args)]
        /\ sys.Random.Stream = SeedBytes(sys.args[Len(sys.args)])
        /\ GetSpawnCount(sys) = 0

\* C8: callCount equals the number of draws made on the stream since the last
\* initialize, and a call that is not an initialize never lowers it and raises
\* it by exactly the draws it makes.
C8_CallCountCountsDraws ==
    [][/\ sys'.Random.CallCount = sys'.Random.Mutations
       /\ ~ResetRan(sys') =>
              /\ sys'.Random.CallCount >= sys.Random.CallCount
              /\ sys'.Random.CallCount - sys.Random.CallCount
                     = sys'.Random.Mutations - sys.Random.Mutations]_vars
C8_Witness ==
    /\ sys.op = "SpawnParkingVehicles"
    /\ sys.Random.CallCount >= 10

\* C9: after ResolveAnchors every requested parking anchor, lane and sidewalk
\* bound whose actors exist is resolved and cached, whatever else is missing.
C9_PartialFailureTolerant ==
    ResolveRan(sys) =>
        /\ \A i \in 1..Len(sys.Config.ParkingAnchors) :
               LET n == sys.Config.ParkingAnchors[i]
               IN  Found(sys, n) =>
                       /\ n \in DOMAIN sys.ResolvedAnchors
                       /\ sys.ResolvedAnchors[n].bIsValid
                       /\ sys.ResolvedAnchors[n].CachedTransform = ActorTransform(n)
        /\ \A i \in 1..Len(sys.Config.Lanes) :
               LET L == sys.Config.Lanes[i]
               IN  (Found(sys, L.StartAnchorName) /\ Found(sys, L.EndAnchorName)) =>
                       /\ L.bIsValid
                       /\ L.StartTransform = ActorTransform(L.StartAnchorName)
                       /\ L.EndTransform = ActorTransform(L.EndAnchorName)
                       /\ {L.StartAnchorName, L.EndAnchorName} \subseteq DOMAIN sys.ResolvedAnchors
        /\ LET B == sys.Config.SidewalkBounds
           IN  (Found(sys, B.Anchor1Name) /\ Found(sys, B.Anchor2Name)) =>
                   /\ B.bIsValid
                   /\ B.Bounds.Min.x = Min2(ActorTransform(B.Anchor1Name).x,
                                            ActorTransform(B.Anchor2Name).x)
                   /\ B.Bounds.Max.y = Max2(ActorTransform(B.Anchor1Name).y,
                                            ActorTransform(B.Anchor2Name).y)
C9_Witness ==
    /\ ResolveRan(sys)
    /\ \E i, j \in 1..Len(sys.Config.ParkingAnchors) :
           /\ i < j
           /\ ~Found(sys, sys.Config.ParkingAnchors[i])
           /\ Found(sys, sys.Config.ParkingAnchors[j])
           /\ sys.Config.ParkingAnchors[j] \in DOMAIN sys.ResolvedAnchors
    /\ \E i, j \in 1..Len(sys.Config.Lanes) :
           i < j /\ ~sys.Config.Lanes[i].bIsValid /\ sys.Config.Lanes[j].bIsValid

\* C10: after ResolveAnchors a lane is valid only if both its anchors were
\* found, and the sidewalk bounds are valid only if both corners were found.
C10_ValidOnlyIfBothFound ==
    ResolveRan(sys) =>
        /\ \A i \in 1..Len(sys.Config.Lanes) :
               LET L == sys.Config.Lanes[i]
               IN  L.bIsValid => (Found(sys, L.StartAnchorName) /\ Found(sys, L.EndAnchorName))
        /\ LET B == sys.Config.SidewalkBounds
           IN  B.bIsValid => (Found(sys, B.Anchor1Name) /\ Found(sys, B.Anchor2Name))

\* the half-extent along X of a spawned actor: the car's, scaled by the actor's scale
EntityHalfExtent(a) == VehicleHalfExtentX * a.Scale
SingleRequest(s) == s.op \in {"SpawnAtParkingSlot", "SpawnAlongLane"} /\ Len(s.results) = 1

C12_ShuffleIsPermutation ==
    calc.fn \in {"Shuffle", "StreamShuffle"} =>
        /\ Len(calc.out) = calc.in[1]
        /\ \A k \in 0..(calc.in[1] - 1) :
               Cardinality({i \in 1..Len(calc.out) : calc.out[i] = k}) = 1
\* a shuffle of a pool of at least 5 that moved the first and the last index
C12_Witness ==
    /\ calc.fn = "Shuffle"
    /\ calc.in[1] >= 5
    /\ calc.out[1] # 0
    /\ calc.out[calc.in[1]] # calc.in[1] - 1

\* the last call was a SpawnParkingVehicles batch that returned
ParkingBatch(s) == s.op = "SpawnParkingVehicles"
\* min(MaxVehicles, number of anchors), every anchor when MaxVehicles is negative
BatchSize(s) ==
    IF s.args[2] < 0 THEN Len(s.Config.ParkingAnchors)
    ELSE Min2(s.args[2], Len(s.Config.ParkingAnchors))
DistinctAnchors(results) ==
    \A i, j \in 1..Len(results) : i # j => results[i].AnchorName # results[j].AnchorName

\* C13 as stated: every SpawnParkingVehicles batch attempts min(MaxVehicles, number of
\* anchors) requests (all anchors when MaxVehicles is -1), no two for the same anchor.
C13_BatchWithoutReplacement ==
    ParkingBatch(sys) =>
        /\ DistinctAnchors(sys.results)
        /\ Len(sys.results) = BatchSize(sys)
\* C13 amended: a SpawnParkingVehicles batch given at least one vehicle configuration
\* attempts min(MaxVehicles, number of anchors) requests (all anchors when MaxVehicles
\* is negative), no two for the same anchor; given no vehicle configuration it
\* attempts none.
C13_BatchWithoutReplacementGivenConfigs ==
    ParkingBatch(sys) =>
        /\ DistinctAnchors(sys.results)
        /\ Len(sys.results) = IF sys.args[1] = 0 THEN 0 ELSE BatchSize(sys)
\* a batch of 2 requests over 3 configured anchors
C13_Witness ==
    /\ ParkingBatch(sys)
    /\ sys.args[1] > 0
    /\ sys.args[2] = 2
    /\ Len(sys.Config.ParkingAnchors) = 3
    /\ Len(sys.results) = 2

\* the results of the last call for which ComputeLaneTransform ran
LanePlacements(s) == {r \in Results(s) : r.By = "lane" /\ r.T # -1}

\* C14: every lane placement, through SpawnLaneVehicles or through a direct
\* SpawnAlongLane call with any T, computes its position from an interpolation
\* parameter in [0.05, 0.95] (50..950 thousandths).
C14_LaneParameterClamped ==
    \A r \in LanePlacements(sys) : 50 <= r.T /\ r.T <= 950

\* the results of the last call for which ComputeParkingTransform ran
SlotPlacements(s) == {r \in Results(s) : r.By = "slot" /\ r.Checks >= 1}

\* C15: the yaw ComputeParkingTransform ends with, for every slot placement, either
\* parking mode and every yaw jitter within the configured bound, lies in [-180, 180).
C15_YawNormalized ==
    \A r \in SlotPlacements(sys) : -180 <= r.Candidate.yaw /\ r.Candidate.yaw < 180

\* yaw y is yaw a plus a jitter of at most b degrees, as numbers
YawWithin(y, a, b) == a - b <= y /\ y <= a + b
\* yaw y is yaw a plus a jitter of at most b degrees, as directions
YawWithinMod(y, a, b) == \E j \in (-b)..b : (y - a - j) % 360 = 0
BatchEvaluated == calc.fn = "SpawnParkingVehicles"
BatchResults == {calc.out[i] : i \in 1..Len(calc.out)}
\* the anchors of the batch's row are more than 500 apart after any jitter
SpacedRow == calc.in[1][1] = "A1"
NeverTrueAtZero == (calc.fn = "RandBool" /\ calc.in[1] = 0) => ~calc.out[1]

\* C16 as stated: over 5 resolved parking anchors, MaxVehicles = 3, a loadable asset
\* and reverse probability 0, SpawnParkingVehicles returns exactly 3 results, all
\* spawned, each with a yaw within the anchor's yaw plus or minus the yaw jitter bound
\* (hence none reversed); RandBool(0) is never true.
C16_ScenarioA ==
    /\ BatchEvaluated =>
          /\ Len(calc.out) = 3
          /\ \A r \in BatchResults :
                /\ r.bSuccess
                /\ YawWithin(r.FinalTransform.yaw, ActorTransform(r.AnchorName).yaw,
                             RowConfig(calc.in[1]).ParkingYawJitter)
    /\ NeverTrueAtZero
\* C16 amended: the batch returns exactly 3 results, none reversed: each candidate's
\* yaw is the anchor's yaw plus a jitter within the bound, up to whole turns; when
\* the anchors are more than 500 cm apart all 3 are spawned, otherwise a request
\* can fail on overlap; RandBool(0) is never true.
C16_ScenarioASpacedAnchors ==
    /\ BatchEvaluated =>
          /\ Len(calc.out) = 3
          /\ \A r \in BatchResults :
                /\ r.bSuccess \/ OverlapFailed(r)
                /\ SpacedRow => r.bSuccess /\ r.FinalTransform = r.Candidate
                /\ YawWithinMod(r.Candidate.yaw, ActorTransform(r.AnchorName).yaw,
                                RowConfig(calc.in[1]).ParkingYawJitter)
    /\ NeverTrueAtZero
\* a batch over the spaced row that placed a vehicle at the anchor of yaw 178 with a
\* yaw that wrapped around
C16_Witness ==
    /\ BatchEvaluated
    /\ SpacedRow
    /\ \E r \in BatchResults : r.AnchorName = "A3" /\ r.bSuccess /\ r.FinalTransform.yaw < 0

\* the position cached by ResolveAnchors for the anchor of result r
CachedPosition(s, r) == s.ResolvedAnchors[r.AnchorName].CachedTransform

\* C17: the position of every slot placement differs from the anchor's cached
\* position by at most ParkingPositionJitter on each of the two ground axes, and its
\* vertical coordinate is the anchor's; a spawned vehicle's final transform is that
\* candidate.
C17_SlotJitterBounded ==
    \A r \in SlotPlacements(sys) :
        /\ Abs(r.Candidate.x - CachedPosition(sys, r).x) <= sys.Config.ParkingPositionJitter
        /\ Abs(r.Candidate.y - CachedPosition(sys, r).y) <= sys.Config.ParkingPositionJitter
        /\ r.Candidate.z = CachedPosition(sys, r).z
        /\ r.bSuccess => r.FinalTransform = r.Candidate
\* a spawned slot placement that was moved on both ground axes
C17_Witness ==
    \E r \in SlotPlacements(sys) :
        /\ r.bSuccess
        /\ r.FinalTransform.x # CachedPosition(sys, r).x
        /\ r.FinalTransform.y # CachedPosition(sys, r).y

VisibilityEvaluated == calc.fn = "CalculateVisibilityPercentage" /\ ~calc.in[1].bNull
VisCorners == BoundsCorners(calc.in[1].Origin, calc.in[1].Extent)
VisForward == RotatorVector(calc.in[3])
\* the corners in front of the camera and within the effective half angle
PassingCorners ==
    {i \in 1..8 : /\ ~BehindCamera(VisCorners[i], calc.in[2], VisForward)
                  /\ InsideCone(VisCorners[i], calc.in[2], VisForward, calc.in[4])}
AllCornersBehind == \A i \in 1..8 : BehindCamera(VisCorners[i], calc.in[2], VisForward)

\* C18: CalculateVisibilityPercentage returns a value in [0, 100] (0..1000 tenths of
\* a percent), the share of the 8 corners that are in front of the camera and within
\* the effective half angle, and exactly 0 when all 8 corners are behind the camera.
C18_VisibilityBounds ==
    calc.fn = "CalculateVisibilityPercentage" =>
        /\ 0 <= calc.out[1] /\ calc.out[1] <= 1000
        /\ VisibilityEvaluated =>
              /\ calc.out[1] * 8 = Cardinality(PassingCorners) * 1000
              /\ AllCornersBehind => calc.out[1] = 0
\* bounds wholly behind the camera although inside the cone around its axis
C18_Witness ==
    /\ VisibilityEvaluated
    /\ AllCornersBehind
    /\ \E i \in 1..8 : InsideCone(VisCorners[i], calc.in[2], VisForward, calc.in[4])

AnnotationRan == dr.op \in {"GenerateBoundingBoxes", "GeneratePoseAnnotations"}
Annotated == {dr.annotated[i].actor : i \in 1..Len(dr.annotated)}

\* C19: an entity that has been hidden (by the sweep, or for falling below the
\* visibility threshold) never appears in the annotations that
\* GenerateBoundingBoxes or GeneratePoseAnnotations return.
C19_HiddenNeverAnnotated ==
    AnnotationRan => \A h \in Annotated : ~dr.Actors[h].bHidden

BoxesEvaluated == calc.fn = "GenerateBoundingBoxes"
\* the screen positions of the 8 corners of the annotated actor
ProjectedCorners ==
    LET B == GetActorBounds(OneActorLevel(calc.in[1]).Actors[1])
        Corners == BoxCorners(B.Origin, B.Extent)
    IN  {ProjectWorldToScreen(calc.in[2], Corners[i]) : i \in 1..8}
IsMinOf(m, S) == m \in S /\ \A v \in S : m <= v
IsMaxOf(m, S) == m \in S /\ \A v \in S : v <= m

\* C20: the 2D box GenerateBoundingBoxes emits for an actor has x_min <= x_max and
\* y_min <= y_max, its bounds are the minimum and maximum of the projected corners
\* on each screen axis, and width and height are x_max - x_min and y_max - y_min,
\* hence not negative.
C20_ProjectionSanity ==
    BoxesEvaluated =>
        /\ Len(calc.out) = 1
        /\ \A i \in 1..Len(calc.out) :
              LET a == calc.out[i]
              IN  /\ a.x_min <= a.x_max /\ a.y_min <= a.y_max
                  /\ IsMinOf(a.x_min, {p.X : p \in ProjectedCorners})
                  /\ IsMaxOf(a.x_max, {p.X : p \in ProjectedCorners})
                  /\ IsMinOf(a.y_min, {p.Y : p \in ProjectedCorners})
                  /\ IsMaxOf(a.y_max, {p.Y : p \in ProjectedCorners})
                  /\ a.width = a.x_max - a.x_min /\ a.width >= 0
                  /\ a.height = a.y_max - a.y_min /\ a.height >= 0
\* a box of positive width and height whose first corner is at neither bound in x
C20_Witness ==
    /\ BoxesEvaluated
    /\ calc.in[2].kind = "table"
    /\ \E i \in 1..Len(calc.out) :
          /\ calc.out[i].width > 0 /\ calc.out[i].height > 0
          /\ LET B == GetActorBounds(OneActorLevel(calc.in[1]).Actors[1])
                 first == ProjectWorldToScreen(calc.in[2], BoxCorners(B.Origin, B.Extent)[1])
             IN  calc.out[i].x_min < first.X /\ first.X < calc.out[i].x_max

\* two annotation outputs with one record per entity, for the same entities in the
\* same order and with the same class names
SameEntities(boxes, poses) ==
    /\ Len(boxes) = Len(poses)
    /\ \A i \in 1..Len(boxes) :
          boxes[i].actor = poses[i].actor /\ boxes[i].class = poses[i].class

\* C21: in one world state and for one tag filter, GenerateBoundingBoxes (with any
\* camera) and GeneratePoseAnnotations return one record per matching actor, for the
\* same actors in the same order and with the same class name for each.
C21_SameEntitySet ==
    /\ dr.op = "GenerateBoundingBoxes" =>
          SameEntities(dr.annotated, GeneratePoseAnnotations(dr, dr.ret))
    /\ dr.op = "GeneratePoseAnnotations" =>
          \A P \in LevelCameras :
              SameEntities(GenerateBoundingBoxes(dr, dr.ret, P), dr.annotated)
    /\ AnnotationRan =>
          /\ \A i, j \in 1..Len(dr.annotated) :
                i # j => dr.annotated[i].actor # dr.annotated[j].actor
          /\ Annotated = {h \in 1..Len(dr.Actors) :
                            /\ dr.Actors[h].bValid
                            /\ \E k \in 1..Len(dr.ret) : ActorHasTag(dr.Actors[h], dr.ret[k])}
\* boxes for two matching actors of different classes, one of them hidden, next to
\* an actor the filter leaves out
C21_Witness ==
    /\ dr.op = "GenerateBoundingBoxes"
    /\ \E i, j \in 1..Len(dr.annotated) :
          /\ dr.annotated[i].class # dr.annotated[j].class
          /\ dr.Actors[dr.annotated[i].actor].bHidden
          /\ ~dr.Actors[dr.annotated[j].actor].bHidden
    /\ \E h \in 1..Len(dr.Actors) : dr.Actors[h].bValid /\ h \notin Annotated

SpawnOps ==
    {"SpawnParkingVehicles", "SpawnAtParkingSlot", "SpawnLaneVehicles", "SpawnAlongLane",
     "SpawnSidewalkProps"}
\* the spawn system itself: everything but the record of the last call
SystemState(s) ==
    <<s.World, s.Config, s.Random, s.ResolvedAnchors, s.SpawnedActors, s.InstanceCounter,
      s.Actors>>

\* C22: Initialize with a null world returns false and changes nothing of the
\* system; a spawn operation called while the system has no world returns no
\* successful result and leaves the registry, the instance counter and the world's
\* actors as they were.
C22_NullWorldLeavesRegistry ==
    [][/\ (sys'.op = "Initialize" /\ sys'.nops = sys.nops + 1 /\ ~sys'.args[1])
            => (~sys'.ok /\ SystemState(sys') = SystemState(sys))
       /\ (sys'.op \in SpawnOps /\ sys'.nops = sys.nops + 1 /\ ~sys.World)
            => /\ \A r \in Results(sys') : ~r.bSuccess
               /\ sys'.SpawnedActors = sys.SpawnedActors
               /\ sys'.InstanceCounter = sys.InstanceCounter
               /\ sys'.Actors = sys.Actors]_vars
\* Initialize with a null world, called on a system that holds spawned actors
C22_Witness ==
    /\ sys.op = "Initialize"
    /\ ~sys.args[1]
    /\ Len(sys.SpawnedActors) >= 1
    /\ sys.InstanceCounter >= 1

\* C23: every result with bSuccess = false that a spawn operation (slot, lane or
\* area) returns carries a non-empty FailureReason.
C23_FailuresCarryReason ==
    sys.op \in SpawnOps => \A r \in Results(sys) : ~r.bSuccess => r.FailureReason # ""

LaneBatch(s) == s.op = "SpawnLaneVehicles"
ValidLanes(s) == {li \in 1..Len(s.Config.Lanes) : s.Config.Lanes[li].bIsValid}
\* the number of results of the last call that are for lane li
ResultsForLane(s, li) ==
    Cardinality({i \in 1..Len(s.results) : s.results[i].AnchorName = s.Config.Lanes[li].LaneId})
\* every valid lane has n results and no other lane has any
PerValidLane(s, n) ==
    /\ Len(s.results) = n * Cardinality(ValidLanes(s))
    /\ \A li \in ValidLanes(s) : ResultsForLane(s, li) = n

ResetEvaluated == calc.fn = "ResetVehicles"
CountMismatch(d) == Len(d.RegisteredVehicles) # Len(d.OriginalVehicleTransforms)

\* C25: ResetVehicles called with a registry and a list of stored transforms of
\* different lengths changes nothing; called with lists of equal length it gives
\* every registered actor that still exists its own stored transform and shows it,
\* and leaves every other actor and both lists as they were.
C25_ResetAbortsOnMismatch ==
    ResetEvaluated =>
        LET d == calc.in[1]
            e == calc.out[1]
        IN  /\ CountMismatch(d) => e = d
            /\ ~CountMismatch(d) =>
                  /\ \A i \in 1..Len(d.RegisteredVehicles) :
                        d.Actors[d.RegisteredVehicles[i]].bValid =>
                            /\ GetTransform(e.Actors[d.RegisteredVehicles[i]])
                                  = d.OriginalVehicleTransforms[i]
                            /\ ~e.Actors[d.RegisteredVehicles[i]].bHidden
                  /\ \A h \in 1..Len(d.Actors) :
                        (~Contains(d.RegisteredVehicles, h) \/ ~d.Actors[h].bValid)
                            => e.Actors[h] = d.Actors[h]
                  /\ e.RegisteredVehicles = d.RegisteredVehicles
                  /\ e.OriginalVehicleTransforms = d.OriginalVehicleTransforms
\* a reset called with two registered, hidden vehicles and one stored transform
C25_Witness ==
    /\ ResetEvaluated
    /\ Len(calc.in[1].RegisteredVehicles) = 2
    /\ Len(calc.in[1].OriginalVehicleTransforms) = 1
    /\ \A h \in {1, 2} : calc.in[1].Actors[h].bValid /\ calc.out[1].Actors[h].bHidden

Locked(s) == {s.Config.LockedActors[i] : i \in 1..Len(s.Config.LockedActors)}
InRegistry(s, h) == \E i \in 1..Len(s.SpawnedActors) : s.SpawnedActors[i] = h

\* C26: a call of the spawn system (initialization, anchor resolution, placement,
\* clear, reseed) leaves every level actor named in the locked list of the
\* configuration in the level; the only actors it changes or destroys are in its
\* registry, and every actor it creates is entered in the registry.
C26_LockedActorsUntouched ==
    [][ sys'.op # "WorldChange" =>
          /\ \A n \in Locked(sys) \cup Locked(sys') :
                (n \in sys.Present) <=> (n \in sys'.Present)
          /\ Len(sys'.Actors) >= Len(sys.Actors)
          /\ \A h \in 1..Len(sys.Actors) :
                sys'.Actors[h] # sys.Actors[h] => InRegistry(sys, h)
          /\ \A h \in (Len(sys.Actors) + 1)..Len(sys'.Actors) : InRegistry(sys', h)
      ]_vars
\* a clear that destroyed a spawned actor under a configuration with locked actors
C26_Witness ==
    /\ sys.op = "ClearAllSpawned"
    /\ Locked(sys) # {}
    /\ Locked(sys) \subseteq sys.Present
    /\ \E h \in 1..Len(sys.Actors) : ~sys.Actors[h].bValid

\* the anchor names a configuration asks for
RequestedAnchors(c) ==
    {c.ParkingAnchors[i] : i \in 1..Len(c.ParkingAnchors)}
        \cup {c.Lanes[i].StartAnchorName : i \in 1..Len(c.Lanes)}
        \cup {c.Lanes[i].EndAnchorName : i \in 1..Len(c.Lanes)}
        \cup {c.SidewalkBounds.Anchor1Name, c.SidewalkBounds.Anchor2Name}
ResolveCalled(s) == s.op = "ResolveAnchors"

InstanceIdOf(s, i) == s.Actors[s.SpawnedActors[i]].Name

Successes(results) == {i \in 1..Len(results) : results[i].bSuccess}
Appended(s0, s1) ==
    {s1.SpawnedActors[k] : k \in (Len(s0.SpawnedActors) + 1)..Len(s1.SpawnedActors)}

C30_RegistryIndexAligned ==
    [][ LET R0 == dr.RegisteredVehicles
            O0 == dr.OriginalVehicleTransforms
            R1 == dr'.RegisteredVehicles
            O1 == dr'.OriginalVehicleTransforms
        IN  /\ Len(R1) = Len(O1)
            /\ \A i, j \in 1..Len(R1) : i # j => R1[i] # R1[j]
            /\ dr'.op = "BeginPlay" =>
                  \A i \in 1..Len(R1) : O1[i] = GetTransform(dr.Actors[R1[i]])
            /\ dr'.op = "RegisterVehicle" =>
                  \/ R1 = R0 /\ O1 = O0
                  \/ \E h \in 1..Len(dr.Actors) :
                        /\ ~Contains(R0, h)
                        /\ R1 = Append(R0, h)
                        /\ O1 = Append(O0, GetTransform(dr.Actors[h]))
            /\ dr'.op = "UnregisterVehicle" =>
                  \/ R1 = R0 /\ O1 = O0
                  \/ \E k \in 1..Len(R0) : R1 = RemoveAt(R0, k) /\ O1 = RemoveAt(O0, k)
            /\ dr'.op = "RandomizeVehicles" =>
                  \/ R1 = R0 /\ O1 = O0
                  \/ /\ ~dr.bVehiclesInitialized \/ Len(R0) = 0
                     /\ \A i \in 1..Len(R1) : O1[i] = GetTransform(dr.Actors[R1[i]])
            /\ dr'.op \notin {"BeginPlay", "RegisterVehicle", "UnregisterVehicle",
                               "RandomizeVehicles"} =>
                  R1 = R0 /\ O1 = O0
      ]_vars
\* two vehicles registered by BeginPlay, then the first of them unregistered
C30_Witness ==
    /\ dr.op = "UnregisterVehicle"
    /\ dr.nops = 4
    /\ dr.bVehiclesInitialized
    /\ dr.RegisteredVehicles = <<2>>
    /\ Len(dr.OriginalVehicleTransforms) = 1
    /\ ActorHasTag(dr.Actors[1], VehicleTag)

====
